---- MODULE Spec2Model ----
(***************************************************************************)
(* ReplayTrader: the replay controller (src/src/lib/replayEngine.ts), the  *)
(* session registry (src/src/lib/useDataSessions.ts), the store queries    *)
(* (src/src/lib/queries.ts) and the page that wires them together          *)
(* (src/src/app/page.tsx, the v0.2.0 Home component).                      *)
(*                                                                         *)
(* React state is modelled as committed at the end of the handler that     *)
(* sets it.  What React runs later is a step of its own: a passive effect  *)
(* (useEffect) runs after the commit that changed its dependencies and     *)
(* before the next commit; a setInterval callback runs whenever the        *)
(* interval is still registered, with the values its closure captured;     *)
(* the continuation of an await runs when the store has answered.          *)
(***************************************************************************)
EXTENDS Integers, Sequences, FiniteSets, TLC

\* ---------------------------------------------------------------- bounds

\* sessions ever created (generateId never repeats an id)
MaxIds == 1
\* load sequences (loadSessionIntoDB) in flight at once
MaxLoads == 2
\* store queries of the query effect in flight at once
MaxQueries == 2

\* ------------------------------------------------------------ small sets

Min(a, b) == IF a < b THEN a ELSE b
Max(a, b) == IF a > b THEN a ELSE b

\* The values of the source that are no number: the null and the undefined
\* of currentTimestamp, the null of activeSessionId.
Null == -1
Undefined == -2
NoSession == 0

Bar(t, o, h, l, c, v) ==
    [time |-> t, open |-> o, high |-> h, low |-> l, close |-> c, volume |-> v]

\* The files the operator can upload, as the bar lists CsvUploader hands
\* over (sorted ascending by time).  Prices rise with time, so a bar built
\* from a later bar is told apart from one that is not.
FileA == << Bar(60, 10, 12, 9, 11, 1), Bar(120, 11, 14, 10, 13, 2) >>
FileB == << Bar(60, 20, 21, 19, 20, 8) >>
\* a file of 5-minute bars
FileC == << Bar(300, 30, 32, 29, 31, 4), Bar(600, 31, 34, 30, 33, 5) >>
Uploads == {FileA, FileB, FileC}

\* ----------------------------------------------------------------- state

VARIABLES
    \* useReplayEngine
    timestamps,       \* useState<number[]>([])
    currentIndex,     \* useState(0)
    isPlaying,        \* useState(false)
    playSpeed,        \* useState(300)
    intervalRef,      \* the registered interval and what its closure holds
    timers,           \* the intervals the browser holds: registered, not cleared
    tickUpdate,       \* the updaters fired ticks have queued: their bounds
    \* useDataSessions
    sessions,         \* useState<Session[]>([]), each [id, candles]
    activeSessionId,  \* useState<string | null>(null)
    initializedRef,   \* useRef(false): the mount effect has run
    nextId,           \* the next id generateId returns
    localStorage,     \* [meta: ids in order, candles: id -> bar list]
    lastRender,       \* what the last render saw: the tabs shown and the
                      \* activeSessionId the closure of removeSession holds
    \* Home
    visibleCandles,   \* useState<OHLCCandle[]>([])
    timeframe,        \* useState(60)
    isInitializing,   \* useState(false)
    loads,            \* the loadSessionIntoDB calls in flight, oldest first
    queries,          \* the query-effect requests in flight, oldest first
    \* the store
    table,            \* the rows of historical_data, in insertion order
    \* React: the effects whose dependencies changed in a commit
    replayEffectDue,  \* the auto-play effect
    sessionEffectDue, \* the active-session effect
    queryEffectDue,   \* the query effect
    \* history
    op,               \* the last controller operation called, with the state before
    latestQuery,      \* the latest-issued request of the query effect: its
                      \* status and the bars the store answered it with
    awaitReinit,      \* the active session changed and the replay state has
                      \* not been the reinitialized one since
    \* lib/duckdb
    dbInstance,       \* let dbInstance = null, else the instance
    dbConnection,     \* let dbConnection = null, else the connection
    initPromise,      \* let initPromise = null, else the promise, as its
                      \* place in inits
    inits,            \* the promises getDuckDB has made: how far each is
    calls,            \* the calls of getConnection and resetDB in flight
    instances,        \* the AsyncDuckDB instances made and not terminated
    connections,      \* the connections opened and not closed
    nextHandle,       \* the next instance or connection the engine makes
    \* lib/drawingManager and the drawings of Home
    drawingStorage,   \* localStorage['replaytrader-drawings'], [id, sessionId] each
    drawings,         \* useState<Drawing[]>([])
    nextDrawingId     \* the next id generateDrawingId returns

replayVars == << timestamps, currentIndex, isPlaying, playSpeed, intervalRef, timers,
                 tickUpdate >>
registryVars == << sessions, activeSessionId, initializedRef, nextId,
                   localStorage, lastRender >>
pageVars == << visibleCandles, timeframe, isInitializing, loads, queries >>
effectVars == << replayEffectDue, sessionEffectDue, queryEffectDue >>
historyVars == << op, latestQuery, awaitReinit >>

handleVars == << dbInstance, dbConnection, initPromise, inits, calls, instances,
                connections, nextHandle >>
drawingVars == << drawingStorage, drawings, nextDrawingId >>
libVars == << handleVars, drawingVars >>

vars == << replayVars, registryVars, pageVars, table, effectVars, historyVars,
          libVars >>

\* null for dbInstance, dbConnection and initPromise
NoHandle == 0

\* a caller that has no call in flight
Idle == [fn |-> "none", pc |-> "none", promise |-> NoHandle, handle |-> NoHandle]

\* the callers of the store handle: the load sequences and the query effect
Callers == {1, 2}

\* the module state of lib/duckdb when the page is loaded, an empty
\* annotation store and the drawings of the first render
LibInitState ==
    /\ dbInstance = NoHandle
    /\ dbConnection = NoHandle
    /\ initPromise = NoHandle
    /\ inits = << >>
    /\ calls = [c \in Callers |-> Idle]
    /\ instances = {}
    /\ connections = {}
    /\ nextHandle = 1
    /\ drawingStorage = << >>
    /\ drawings = << >>
    /\ nextDrawingId = 1

\* ------------------------------------------------------- derived values

Range(s) == { s[k] : k \in 1 .. Len(s) }

RECURSIVE SortedSeq(_)
\* the elements of a finite set of numbers, ascending
SortedSeq(S) ==
    IF S = {} THEN << >>
    ELSE LET m == CHOOSE x \in S : \A y \in S : x <= y
         IN << m >> \o SortedSeq(S \ {m})

Speeds == {300, 150}
Timeframes == {60, 300}

totalCandles == Len(timestamps)

\* timestamps[currentIndex] of a JavaScript array: undefined out of range
currentTimestamp ==
    IF totalCandles > 0
    THEN IF currentIndex \in 0 .. (totalCandles - 1)
         THEN timestamps[currentIndex + 1]
         ELSE Undefined
    ELSE Null

\* A JavaScript number as far as progress needs it: a quotient num / den
\* with den > 0, or what a division by zero gives.
Finite(num, den) == [kind |-> "finite", num |-> num, den |-> den]
NotANumber == [kind |-> "NaN", num |-> 0, den |-> 1]
Infinite(sign) == [kind |-> "Infinity", num |-> sign, den |-> 1]

\* totalCandles > 0 ? (currentIndex / (totalCandles - 1)) * 100 : 0
progress ==
    IF totalCandles > 0
    THEN IF totalCandles - 1 = 0
         THEN IF currentIndex = 0 THEN NotANumber
              ELSE Infinite(IF currentIndex > 0 THEN 1 ELSE -1)
         ELSE Finite(currentIndex * 100, totalCandles - 1)
    ELSE Finite(0, 1)

\* sessions.find((s) => s.id === activeSessionId) ?? null
hasActiveSession == \E k \in 1 .. Len(sessions) : sessions[k].id = activeSessionId

activeSession ==
    sessions[CHOOSE k \in 1 .. Len(sessions) :
                 /\ sessions[k].id = activeSessionId
                 /\ \A j \in 1 .. (k - 1) : sessions[j].id # activeSessionId]

dataLoaded == hasActiveSession /\ ~isInitializing

\* SELECT DISTINCT timestamp ... ORDER BY timestamp ASC
\* SELECT timestamp without DISTINCT
getAllTimestampsNoDistinct(tbl) ==
    LET n == Len(tbl)
        before(k) == Cardinality({ j \in 1 .. n :
                         \/ tbl[j].time < tbl[k].time
                         \/ tbl[j].time = tbl[k].time /\ j < k })
    IN [p \in 1 .. n |-> tbl[CHOOSE k \in 1 .. n : before(k) = p - 1].time]

getAllTimestamps(tbl) == SortedSeq({ r.time : r \in Range(tbl) })

\* The replay state a change of the active session is to lead to.
Reinitialized ==
    /\ currentIndex = 0
    /\ ~isPlaying
    /\ timestamps = getAllTimestamps(IF hasActiveSession
                                     THEN activeSession.candles ELSE << >>)

\* ----------------------------------------------------------- React commits

\* The dependency lists of the three effects, compared between two commits.
\* a dependency list of the auto-play effect that leaves out playSpeed
ReplayDepsChangeNoSpeed ==
    \/ isPlaying' # isPlaying
    \/ Len(timestamps') # Len(timestamps)

ReplayDepsChange ==
    \/ isPlaying' # isPlaying
    \/ playSpeed' # playSpeed
    \/ Len(timestamps') # Len(timestamps)

SessionDepsChange == activeSessionId' # activeSessionId

QueryDepsChange ==
    \/ currentTimestamp' # currentTimestamp
    \/ timeframe' # timeframe
    \/ dataLoaded' # dataLoaded

\* Every commit: an effect is due when its dependencies changed.
Commit ==
    /\ replayEffectDue' = (replayEffectDue \/ ReplayDepsChange)
    /\ sessionEffectDue' = (sessionEffectDue \/ SessionDepsChange)
    /\ queryEffectDue' = (queryEffectDue \/ QueryDepsChange)
    /\ awaitReinit' = ((awaitReinit \/ SessionDepsChange) /\ ~Reinitialized')

EffectsDue == replayEffectDue \/ sessionEffectDue \/ queryEffectDue

\* A handler, and the continuation of an await that sets state, runs on a
\* rendered tree: the passive effects of the last commit have run (React
\* flushes them before the next render) and no update is queued.
Rendered == initializedRef /\ ~EffectsDue /\ tickUpdate = << >>

Called(name, arg) ==
    op' = IF op.name \in {"off", "prior", "upload", "detect"} THEN op
          ELSE [name |-> name, arg |-> arg, idx |-> currentIndex,
                play |-> isPlaying, ts |-> timestamps, speed |-> playSpeed]

\* the state an ingestion or a session activation starts in
Prior ==
    [name |-> "prior", sessions |-> sessions, active |-> activeSessionId,
     table |-> table, ts |-> timestamps, idx |-> currentIndex,
     play |-> isPlaying]

\* history: an ingestion or a session activation starts
Started == op' = IF op.name = "prior" THEN Prior ELSE op

\* ------------------------------------------------ useReplayEngine functions

\* intervalRef.current = null
NoInterval == [active |-> FALSE, bound |-> 0, delay |-> 0]

\* a clearPlayInterval that forgets the handle without clearInterval
clearPlayIntervalRefOnly == timers

\* the interval intervalRef.current is the handle of
Held == [bound |-> intervalRef.bound, delay |-> intervalRef.delay]

\* clearPlayInterval: the browser's intervals after clearInterval of the
\* one intervalRef holds, if it holds one
clearPlayInterval ==
    IF intervalRef.active /\ \E k \in 1 .. Len(timers) : timers[k] = Held
    THEN LET k == CHOOSE j \in 1 .. Len(timers) :
                      /\ timers[j] = Held
                      /\ \A i \in 1 .. (j - 1) : timers[i] # Held
         IN SubSeq(timers, 1, k - 1) \o SubSeq(timers, k + 1, Len(timers))
    ELSE timers

\* initialize without the setCurrentIndex(0)
initializeKeepsIndex(ts) ==
    /\ timestamps' = ts
    /\ isPlaying' = FALSE
    /\ UNCHANGED << currentIndex, playSpeed, intervalRef, timers, tickUpdate >>

initialize(ts) ==
    /\ timestamps' = ts
    /\ currentIndex' = 0
    /\ isPlaying' = FALSE
    /\ UNCHANGED << playSpeed, intervalRef, timers, tickUpdate >>

\* stepForward without the Math.min
stepForwardUnclamped(n) ==
    /\ currentIndex' = currentIndex + n
    /\ UNCHANGED << timestamps, isPlaying, playSpeed, intervalRef, timers, tickUpdate >>

stepForward(n) ==
    /\ currentIndex' = Min(currentIndex + n, totalCandles - 1)
    /\ UNCHANGED << timestamps, isPlaying, playSpeed, intervalRef, timers, tickUpdate >>

stepBackward(n) ==
    /\ currentIndex' = Max(currentIndex - n, 0)
    /\ UNCHANGED << timestamps, isPlaying, playSpeed, intervalRef, timers, tickUpdate >>

pause ==
    /\ isPlaying' = FALSE
    /\ intervalRef' = NoInterval
    /\ timers' = clearPlayInterval
    /\ UNCHANGED << timestamps, currentIndex, playSpeed, tickUpdate >>

play ==
    /\ isPlaying' = TRUE
    /\ UNCHANGED << timestamps, currentIndex, playSpeed, intervalRef, timers, tickUpdate >>

togglePlay ==
    /\ isPlaying' = ~isPlaying
    /\ UNCHANGED << timestamps, currentIndex, playSpeed, intervalRef, timers, tickUpdate >>

\* setIndex without the clamp
setIndexUnclamped(i) ==
    /\ currentIndex' = i
    /\ UNCHANGED << timestamps, isPlaying, playSpeed, intervalRef, timers, tickUpdate >>

\* setIndex that also pauses
setIndexPausing(i) ==
    /\ currentIndex' = Max(0, Min(i, totalCandles - 1))
    /\ isPlaying' = FALSE
    /\ UNCHANGED << timestamps, playSpeed, intervalRef, timers, tickUpdate >>

setIndex(i) ==
    /\ currentIndex' = Max(0, Min(i, totalCandles - 1))
    /\ UNCHANGED << timestamps, isPlaying, playSpeed, intervalRef, timers, tickUpdate >>

setSpeed(ms) ==
    /\ playSpeed' = ms
    /\ UNCHANGED << timestamps, currentIndex, isPlaying, intervalRef, timers, tickUpdate >>

\* reset without the pause()
resetIndexOnly ==
    /\ currentIndex' = 0
    /\ UNCHANGED << timestamps, isPlaying, playSpeed, intervalRef, timers, tickUpdate >>

reset ==
    /\ isPlaying' = FALSE
    /\ intervalRef' = NoInterval
    /\ timers' = clearPlayInterval
    /\ currentIndex' = 0
    /\ UNCHANGED << timestamps, playSpeed, tickUpdate >>

\* The auto-play effect: clearPlayInterval, then the body.
AutoPlayEffect ==
    IF isPlaying /\ totalCandles > 0
    THEN [active |-> TRUE, bound |-> totalCandles, delay |-> playSpeed]
    ELSE NoInterval

\* an updater that stops at the end without setIsPlaying(false)
TickUpdaterKeepsPlaying(total) ==
    /\ currentIndex' = IF currentIndex >= total - 1 THEN currentIndex
                       ELSE currentIndex + 1
    /\ UNCHANGED << timestamps, isPlaying, playSpeed, intervalRef, timers >>

\* The updater of the interval callback, applied by the next render;
\* total is the totalCandles the callback's closure holds.
TickUpdater(total) ==
    /\ IF currentIndex >= total - 1
       THEN isPlaying' = FALSE /\ currentIndex' = currentIndex
       ELSE isPlaying' = isPlaying /\ currentIndex' = currentIndex + 1
    /\ UNCHANGED << timestamps, playSpeed, intervalRef, timers >>

\* ------------------------------------------------------------ store queries

BATCH_SIZE == 5000

RECURSIVE SortByTime(_)
\* ORDER BY timestamp ASC; rows of equal time stay in insertion order
SortByTime(rows) ==
    IF rows = << >> THEN << >>
    ELSE LET m == CHOOSE k \in 1 .. Len(rows) :
                      /\ \A j \in 1 .. Len(rows) : rows[k].time <= rows[j].time
                      /\ \A j \in 1 .. (k - 1) : rows[j].time # rows[k].time
         IN << rows[m] >> \o
            SortByTime(SubSeq(rows, 1, m - 1) \o SubSeq(rows, m + 1, Len(rows)))

\* the query without its WHERE clause
RowsAnyTime(tbl, cursor) == tbl

\* WHERE timestamp <= currentTimestamp
RowsUpTo(tbl, cursor) == SelectSeq(tbl, LAMBDA r : r.time <= cursor)

queryCandles(tbl, cursor) == SortByTime(RowsUpTo(tbl, cursor))

\* FLOOR(timestamp / intervalSeconds) * intervalSeconds
BucketOf(t, intervalSeconds) == (t \div intervalSeconds) * intervalSeconds

RECURSIVE SumVolume(_)
SumVolume(rows) ==
    IF rows = << >> THEN 0 ELSE Head(rows).volume + SumVolume(Tail(rows))

\* a row whose close is the close of the first bar of the group
AggregateRowCloseFirst(bucket, rows) ==
    [time   |-> bucket,
     open   |-> rows[1].open,
     high   |-> CHOOSE h \in { r.high : r \in Range(rows) } :
                    \A r \in Range(rows) : r.high <= h,
     low    |-> CHOOSE l \in { r.low : r \in Range(rows) } :
                    \A r \in Range(rows) : l <= r.low,
     close  |-> rows[1].close,
     volume |-> SumVolume(rows)]

\* one output row of the GROUP BY: rows is the group, ascending by time
AggregateRow(bucket, rows) ==
    [time   |-> bucket,
     open   |-> rows[1].open,
     high   |-> CHOOSE h \in { r.high : r \in Range(rows) } :
                    \A r \in Range(rows) : r.high <= h,
     low    |-> CHOOSE l \in { r.low : r \in Range(rows) } :
                    \A r \in Range(rows) : l <= r.low,
     close  |-> rows[Len(rows)].close,
     volume |-> SumVolume(rows)]

queryAggregatedCandles(tbl, cursor, intervalSeconds) ==
    LET rows == SortByTime(RowsUpTo(tbl, cursor))
        buckets == SortedSeq({ BucketOf(r.time, intervalSeconds) : r \in Range(rows) })
    IN [k \in 1 .. Len(buckets) |->
           AggregateRow(buckets[k],
               SelectSeq(rows, LAMBDA r :
                   BucketOf(r.time, intervalSeconds) = buckets[k]))]

\* a batch that stops one bar short: slice(i, i + BATCH_SIZE - 1)
BatchShort(candles, i) ==
    SubSeq(candles, i + 1, Min(i + BATCH_SIZE - 1, Len(candles)))

\* the batch insertCandles sends in the loop iteration at index i
Batch(candles, i) == SubSeq(candles, i + 1, Min(i + BATCH_SIZE, Len(candles)))

\* ------------------------------------------------------- session registry

Ids(ss) == [k \in 1 .. Len(ss) |-> ss[k].id]

\* loadSessionMeta: the identities, or [] when getItem throws
loadSessionMeta(metaOk) == IF metaOk THEN localStorage.meta ELSE << >>

\* loadSessionCandles: the payload, or [] when it is absent or getItem throws
loadSessionCandles(id, readable) ==
    IF id \in readable /\ id \in DOMAIN localStorage.candles
    THEN localStorage.candles[id]
    ELSE << >>

\* a restore that keeps the sessions without payload
RestoredSessionsUnfiltered(metaOk, readable) ==
    LET meta == loadSessionMeta(metaOk)
    IN [k \in 1 .. Len(meta) |->
           [id |-> meta[k], candles |-> loadSessionCandles(meta[k], readable)]]

\* the sessions the mount effect restores; metaOk and readable say which
\* reads of the storage succeed
RestoredSessions(metaOk, readable) ==
    LET meta == loadSessionMeta(metaOk)
        all == [k \in 1 .. Len(meta) |->
                   [id |-> meta[k],
                    candles |-> loadSessionCandles(meta[k], readable)]]
    IN SelectSeq(all, LAMBDA s : Len(s.candles) > 0)

\* what a render shows of the registry
RenderOf(ss, active) == [sessions |-> Ids(ss), activeSessionId |-> active]

\* an addSession that puts the new session first: [newSession, ...prev]
addSessionFirst(id, candles, metaOk, candlesOk) ==
    /\ sessions' = << [id |-> id, candles |-> candles] >> \o sessions
    /\ localStorage' =
           [meta |-> IF metaOk THEN Ids(sessions') ELSE localStorage.meta,
            candles |-> IF candlesOk
                        THEN [i \in DOMAIN localStorage.candles \cup {id} |->
                                 IF i = id THEN candles
                                 ELSE localStorage.candles[i]]
                        ELSE localStorage.candles]
    /\ activeSessionId' = id
    /\ nextId' = nextId + 1
    /\ UNCHANGED initializedRef

\* metaOk, candlesOk: the setItem of saveSessionMeta, of saveSessionCandles
\* succeeds; a failed one is caught and leaves the storage as it was
addSession(id, candles, metaOk, candlesOk) ==
    /\ sessions' = Append(sessions, [id |-> id, candles |-> candles])
    /\ localStorage' =
           [meta |-> IF metaOk THEN Ids(sessions') ELSE localStorage.meta,
            candles |-> IF candlesOk
                        THEN [i \in DOMAIN localStorage.candles \cup {id} |->
                                 IF i = id THEN candles
                                 ELSE localStorage.candles[i]]
                        ELSE localStorage.candles]
    /\ activeSessionId' = id
    /\ nextId' = nextId + 1
    /\ UNCHANGED initializedRef

\* a removeSession that never moves the activation
removeSessionKeepsActive(id, metaOk, removeOk) ==
    /\ sessions' = SelectSeq(sessions, LAMBDA s : s.id # id)
    /\ localStorage' =
           [meta |-> IF metaOk THEN Ids(sessions') ELSE localStorage.meta,
            candles |-> IF removeOk
                        THEN [i \in DOMAIN localStorage.candles \ {id} |->
                                 localStorage.candles[i]]
                        ELSE localStorage.candles]
    /\ UNCHANGED << activeSessionId, initializedRef, nextId >>

\* metaOk: the setItem of saveSessionMeta succeeds; removeOk: the removeItem
\* of removeSessionCandles succeeds (it is not caught when it throws).  The
\* activeSessionId compared with is the one of the render the callback was
\* made in.
removeSession(id, metaOk, removeOk) ==
    /\ sessions' = SelectSeq(sessions, LAMBDA s : s.id # id)
    /\ localStorage' =
           [meta |-> IF metaOk THEN Ids(sessions') ELSE localStorage.meta,
            candles |-> IF removeOk
                        THEN [i \in DOMAIN localStorage.candles \ {id} |->
                                 localStorage.candles[i]]
                        ELSE localStorage.candles]
    /\ activeSessionId' =
           IF id = lastRender.activeSessionId
           THEN IF Len(sessions') > 0 THEN sessions'[1].id ELSE NoSession
           ELSE activeSessionId
    /\ UNCHANGED << initializedRef, nextId >>

\* a switchSession that also moves the session to the front of the list
switchSessionToFront(id) ==
    /\ activeSessionId' = id
    /\ sessions' = SelectSeq(sessions, LAMBDA s : s.id = id) \o
                    SelectSeq(sessions, LAMBDA s : s.id # id)
    /\ UNCHANGED << initializedRef, nextId, localStorage >>

switchSession(id) ==
    /\ activeSessionId' = id
    /\ UNCHANGED << sessions, initializedRef, nextId, localStorage >>

\* ------------------------------------------------------------------ Home

\* loadSessionIntoDB up to its first await: setIsInitializing(true)
NewLoad(candles) == [pc |-> "create", candles |-> candles, i |-> 0]

RemoveAt(s, k) == SubSeq(s, 1, k - 1) \o SubSeq(s, k + 1, Len(s))

\* a cleanup that cancels nothing
QueryCleanupNone(qs) == qs

\* the cleanup of the query effect: cancelled = true
QueryCleanup(qs) == [k \in 1 .. Len(qs) |-> [qs[k] EXCEPT !.cancelled = TRUE]]

\* the body of the query effect: nothing unless loaded and a cursor exists
QueryIssued == dataLoaded /\ currentTimestamp # Null

\* a query effect that always sends the range query
QueryKindRange(tf) == "range"

\* timeframe === 60 ? queryCandles : queryAggregatedCandles
QueryKind(tf) == IF tf = 60 THEN "range" ELSE "aggregate"

NewQuery ==
    [cursor |-> currentTimestamp, timeframe |-> timeframe, cancelled |-> FALSE,
     latest |-> TRUE, kind |-> QueryKind(timeframe)]

\* the requests in flight when a newer one is issued
Older(qs) == [k \in 1 .. Len(qs) |-> [qs[k] EXCEPT !.latest = FALSE]]

\* the body of the active-session effect
SessionLoaded == hasActiveSession /\ Len(activeSession.candles) > 0

\* ----------------------------------------------------------------- actions

StepArgs == {0, 1, 2, 10}
IndexArgs == {-1, 0, 1, 2, 5}

ReplayCall ==
    /\ Rendered
    /\ UNCHANGED << registryVars, pageVars, table, libVars, latestQuery >>

StepForward ==
    \E n \in StepArgs :
        ReplayCall /\ stepForward(n) /\ Commit /\ Called("stepForward", n)

StepBackward ==
    \E n \in StepArgs :
        ReplayCall /\ stepBackward(n) /\ Commit /\ Called("stepBackward", n)

SetIndex ==
    \E i \in IndexArgs :
        ReplayCall /\ setIndex(i) /\ Commit /\ Called("setIndex", i)

Play == ReplayCall /\ play /\ Commit /\ Called("play", 0)

Pause == ReplayCall /\ pause /\ Commit /\ Called("pause", 0)

TogglePlay == ReplayCall /\ togglePlay /\ Commit /\ Called("togglePlay", 0)

SetSpeed ==
    \E ms \in Speeds :
        ReplayCall /\ setSpeed(ms) /\ Commit /\ Called("setSpeed", ms)

Reset == ReplayCall /\ reset /\ Commit /\ Called("reset", 0)

\* The interval fires and the render that follows applies its updater,
\* which holds the totalCandles of the render that registered the interval.
Tick ==
    \E k \in 1 .. Len(timers) :
        /\ Rendered
        /\ TickUpdater(timers[k].bound)
        /\ UNCHANGED << tickUpdate, registryVars, pageVars, table, libVars, latestQuery >>
        /\ Commit
        /\ Called("tick", timers[k].bound)

\* The interval fires after a commit whose effects have not run yet: the
\* auto-play effect has not cleared or replaced it.  The callback queues its
\* updater; React runs the effects, then the render applies the updater.
TickFire ==
    \E k \in 1 .. Len(timers) :
        /\ initializedRef /\ replayEffectDue
        /\ tickUpdate = << >>
        /\ tickUpdate' = << timers[k].bound >>
        /\ UNCHANGED << timestamps, currentIndex, isPlaying, playSpeed,
                        intervalRef, timers, registryVars, pageVars, table, libVars,
                        effectVars, historyVars >>

TickRender ==
    /\ tickUpdate # << >>
    /\ initializedRef /\ ~EffectsDue
    /\ TickUpdater(Head(tickUpdate))
    /\ tickUpdate' = Tail(tickUpdate)
    /\ UNCHANGED << registryVars, pageVars, table, libVars, latestQuery >>
    /\ Commit
    /\ Called("tick", Head(tickUpdate))

\* The passive effects of the last commit, in the order of the hooks.
FlushEffects ==
    /\ initializedRef /\ EffectsDue
    /\ (queryEffectDue /\ QueryIssued) => Len(queries) < MaxQueries
    /\ intervalRef' = IF replayEffectDue THEN AutoPlayEffect ELSE intervalRef
    /\ timers' = IF replayEffectDue
                 THEN IF AutoPlayEffect.active
                      THEN Append(clearPlayInterval,
                                  [bound |-> AutoPlayEffect.bound,
                                   delay |-> AutoPlayEffect.delay])
                      ELSE clearPlayInterval
                 ELSE timers
    /\ IF sessionEffectDue /\ SessionLoaded
       THEN /\ loads' = Append(loads, NewLoad(activeSession.candles))
            /\ isInitializing' = TRUE
       ELSE UNCHANGED << loads, isInitializing >>
    /\ LET old == IF queryEffectDue THEN QueryCleanup(queries) ELSE queries
       IN IF queryEffectDue /\ QueryIssued
          THEN /\ queries' = Append(Older(old), NewQuery)
               /\ latestQuery' = [latestQuery EXCEPT !.status = "inflight"]
          ELSE queries' = old /\ latestQuery' = latestQuery
    /\ UNCHANGED << timestamps, currentIndex, isPlaying, playSpeed, tickUpdate,
                    registryVars, visibleCandles, timeframe, table, libVars, op,
                    awaitReinit >>
    /\ replayEffectDue' = FALSE
    /\ sessionEffectDue' = FALSE
    /\ queryEffectDue' = (dataLoaded' # dataLoaded)

\* The mount effect of useDataSessions: restore the persisted sessions.
Mount ==
    /\ ~initializedRef
    /\ initializedRef' = TRUE
    /\ LET loaded == RestoredSessions(TRUE, DOMAIN localStorage.candles)
       IN IF Len(loaded) > 0
          THEN sessions' = loaded /\ activeSessionId' = loaded[1].id
          ELSE UNCHANGED << sessions, activeSessionId >>
    /\ lastRender' = RenderOf(sessions', activeSessionId')
    /\ UNCHANGED << nextId, localStorage, replayVars, pageVars, table, libVars, latestQuery >>
    /\ Started
    /\ Commit

\* CsvUploader hands over a parsed file.
handleDataLoaded(candles) ==
    /\ Rendered
    /\ nextId <= MaxIds
    /\ Len(loads) + 2 <= MaxLoads
    /\ addSession(nextId, candles, TRUE, TRUE)
    /\ lastRender' = RenderOf(sessions', activeSessionId')
    /\ loads' = Append(loads, NewLoad(candles))
    /\ isInitializing' = TRUE
    /\ UNCHANGED << replayVars, visibleCandles, timeframe, queries, table, libVars,
                    latestQuery >>
    /\ Commit

HandleDataLoaded ==
    \E candles \in Uploads : handleDataLoaded(candles) /\ Started

HandleTabSelect ==
    \E k \in 1 .. Len(sessions) :
        /\ Rendered
        /\ Len(loads) < MaxLoads
        /\ switchSession(sessions[k].id)
        /\ lastRender' = RenderOf(sessions', activeSessionId')
        /\ UNCHANGED << replayVars, pageVars, table, libVars, op, latestQuery >>
        /\ Commit

HandleTabClose ==
    \E k \in 1 .. Len(sessions) :
        /\ Rendered
        /\ Len(loads) < MaxLoads
        /\ removeSession(sessions[k].id, TRUE, TRUE)
        /\ lastRender' = RenderOf(sessions', activeSessionId')
        /\ UNCHANGED << replayVars, pageVars, table, libVars, op, latestQuery >>
        /\ Commit

SetTimeframe ==
    \E tf \in Timeframes :
        /\ Rendered
        /\ timeframe' = tf
        /\ UNCHANGED << replayVars, registryVars, visibleCandles, isInitializing,
                        loads, queries, table, libVars, op, latestQuery >>
        /\ Commit

\* createHistoricalTable of load k is executed by the store.
LoadCreate ==
    \E k \in 1 .. Len(loads) :
        /\ loads[k].pc = "create"
        /\ table' = << >>
        /\ UNCHANGED libVars
        /\ loads' = [loads EXCEPT ![k].pc =
                        IF Len(loads[k].candles) = 0 THEN "timestamps" ELSE "insert"]
        /\ UNCHANGED << replayVars, registryVars, visibleCandles, timeframe,
                        isInitializing, queries, effectVars, historyVars >>

\* One INSERT of insertCandles of load k is executed by the store.
LoadInsert ==
    \E k \in 1 .. Len(loads) :
        /\ loads[k].pc = "insert"
        /\ table' = table \o Batch(loads[k].candles, loads[k].i)
        /\ UNCHANGED libVars
        /\ loads' = [loads EXCEPT
                        ![k].i = loads[k].i + BATCH_SIZE,
                        ![k].pc = IF loads[k].i + BATCH_SIZE < Len(loads[k].candles)
                                  THEN "insert" ELSE "timestamps"]
        /\ UNCHANGED << replayVars, registryVars, visibleCandles, timeframe,
                        isInitializing, queries, effectVars, historyVars >>

\* getAllTimestamps of load k is answered: replay.initialize, then finally.
LoadFinish ==
    \E k \in 1 .. Len(loads) :
        /\ loads[k].pc = "timestamps"
        /\ Rendered
        /\ initialize(getAllTimestamps(table))
        /\ isInitializing' = FALSE
        /\ loads' = RemoveAt(loads, k)
        /\ UNCHANGED << registryVars, visibleCandles, timeframe, queries, table, libVars,
                        latestQuery >>
        /\ Commit
        /\ Called("initialize", getAllTimestamps(table))

\* A statement of load k is rejected by the store (or getConnection is):
\* the statement changes nothing and the await throws.
LoadFail ==
    \E k \in 1 .. Len(loads) :
        /\ loads[k].pc \in {"create", "insert", "timestamps"}
        /\ loads' = [loads EXCEPT ![k].pc = "catch"]
        /\ UNCHANGED << replayVars, registryVars, visibleCandles, timeframe,
                        isInitializing, queries, table, libVars, effectVars, historyVars >>

\* The catch and the finally of load k: console.error, setIsInitializing(false).
LoadCatch ==
    \E k \in 1 .. Len(loads) :
        /\ loads[k].pc = "catch"
        /\ Rendered
        /\ isInitializing' = FALSE
        /\ loads' = RemoveAt(loads, k)
        /\ UNCHANGED << replayVars, registryVars, visibleCandles, timeframe,
                        queries, table, libVars, op, latestQuery >>
        /\ Commit

\* what the store answers to request q
QueryResult(q) ==
    IF q.kind = "range"
    THEN queryCandles(table, q.cursor)
    ELSE queryAggregatedCandles(table, q.cursor, q.timeframe)

\* The store answers request k; the continuation of the query effect runs.
QueryResponse ==
    \E k \in 1 .. Len(queries) :
        LET q == queries[k]
            written == q.cursor # Undefined /\ ~q.cancelled
        IN /\ visibleCandles' = IF written THEN QueryResult(q) ELSE visibleCandles
           /\ latestQuery' =
                  IF q.latest
                  THEN IF q.cursor = Undefined
                       THEN [latestQuery EXCEPT !.status = "failed"]
                       ELSE [status |-> IF written THEN "shown" ELSE "cancelled",
                             bars |-> QueryResult(q)]
                  ELSE IF written
                       THEN [latestQuery EXCEPT !.status = "stale"]
                       ELSE latestQuery
           /\ queries' = RemoveAt(queries, k)
           /\ UNCHANGED << replayVars, registryVars, timeframe, isInitializing,
                           loads, table, libVars, effectVars, op, awaitReinit >>

\* ------------------------------------------------------------ specification

NoStorage == [meta |-> << >>, candles |-> << >>]
OneStored == [meta |-> << 1 >>, candles |-> [i \in {1} |-> FileA]]

InitState ==
    /\ timestamps = << >>
    /\ currentIndex = 0
    /\ isPlaying = FALSE
    /\ playSpeed = 300
    /\ intervalRef = NoInterval
    /\ timers = << >>
    /\ tickUpdate = << >>
    /\ sessions = << >>
    /\ activeSessionId = NoSession
    /\ lastRender = RenderOf(<< >>, NoSession)
    /\ visibleCandles = << >>
    /\ timeframe = 60
    /\ isInitializing = FALSE
    /\ loads = << >>
    /\ queries = << >>
    /\ table = << >>
    /\ LibInitState
    /\ replayEffectDue = FALSE
    /\ sessionEffectDue = FALSE
    /\ queryEffectDue = FALSE
    /\ latestQuery = [status |-> "none", bars |-> << >>]
    /\ awaitReinit = FALSE

NoOp == [name |-> "none", arg |-> 0, idx |-> 0, play |-> FALSE, ts |-> << >>,
         speed |-> 300]

\* The page: what the operator finds in the browser's storage on start.
Init ==
    /\ InitState
    /\ localStorage \in {NoStorage, OneStored}
    /\ nextId = Len(localStorage.meta) + 1
    /\ initializedRef = FALSE
    /\ op = [NoOp EXCEPT !.name = "off"]

Next ==
    \/ Mount
    \/ HandleDataLoaded
    \/ HandleTabSelect
    \/ HandleTabClose
    \/ SetTimeframe
    \/ StepForward
    \/ StepBackward
    \/ SetIndex
    \/ Play
    \/ Pause
    \/ TogglePlay
    \/ SetSpeed
    \/ Reset
    \/ Tick
    \/ TickFire
    \/ TickRender
    \/ FlushEffects
    \/ LoadCreate
    \/ LoadInsert
    \/ LoadFinish
    \/ QueryResponse

Spec == Init /\ [][Next]_vars

\* The replay controller alone, its functions called with any argument.
Timelines == { << >>, << 60 >>, << 60, 120 >>, << 120, 180 >>, << 60, 120, 180 >> }

ReplayInit ==
    /\ InitState
    /\ localStorage = NoStorage
    /\ nextId = 1
    /\ initializedRef = TRUE
    /\ op = NoOp

Initialize ==
    \E ts \in Timelines :
        ReplayCall /\ initialize(ts) /\ Commit /\ Called("initialize", ts)

ReplayNext ==
    \/ Initialize
    \/ StepForward
    \/ StepBackward
    \/ SetIndex
    \/ Play
    \/ Pause
    \/ TogglePlay
    \/ SetSpeed
    \/ Reset
    \/ Tick
    \/ TickFire
    \/ TickRender
    \/ FlushEffects

ReplaySpec == ReplayInit /\ [][ReplayNext]_vars

\* Auto-play left alone: play() has just been called on a loaded timeline,
\* at any position and speed, and from then on only the interval, the
\* effects and the renders run.  setInterval keeps firing and React keeps
\* rendering, so a step that can be taken is taken.
AutoplayTimelines ==
    (Timelines \ { << >> }) \cup { << 60, 120, 180, 240, 300 >> }

AutoplayInit ==
    /\ timestamps \in AutoplayTimelines
    /\ currentIndex \in 0 .. (Len(timestamps) - 1)
    /\ isPlaying = TRUE
    /\ playSpeed \in Speeds
    /\ intervalRef = NoInterval
    /\ timers = << >>
    /\ tickUpdate = << >>
    /\ sessions = << >>
    /\ activeSessionId = NoSession
    /\ lastRender = RenderOf(<< >>, NoSession)
    /\ initializedRef = TRUE
    /\ nextId = 1
    /\ localStorage = NoStorage
    /\ visibleCandles = << >>
    /\ timeframe = 60
    /\ isInitializing = FALSE
    /\ loads = << >>
    /\ queries = << >>
    /\ table = << >>
    /\ LibInitState
    /\ replayEffectDue = TRUE
    /\ sessionEffectDue = FALSE
    /\ queryEffectDue = FALSE
    /\ op = [NoOp EXCEPT !.name = "play", !.idx = currentIndex,
                         !.ts = timestamps, !.speed = playSpeed]
    /\ latestQuery = [status |-> "none", bars |-> << >>]
    /\ awaitReinit = FALSE

AutoplayNext ==
    \/ Tick
    \/ TickFire
    \/ TickRender
    \/ FlushEffects

AutoplaySpec ==
    AutoplayInit /\ [][AutoplayNext]_vars /\ WF_vars(AutoplayNext)

\* ---------------------------------------------------------------- the page

\* Nothing is in flight and nothing is due: no load sequence, no effect, no
\* queued update.  Only the operator can take the next step.
Quiescent ==
    /\ initializedRef
    /\ ~EffectsDue
    /\ loads = << >>
    /\ tickUpdate = << >>

\* how often x occurs in the sequence s
Count(s, x) == Cardinality({ k \in 1 .. Len(s) : s[k] = x })

SameBag(s, t) ==
    \A x \in Range(s) \cup Range(t) : Count(s, x) = Count(t, x)

\* every bar there is, and those of them at or before the cursor
AllBars == UNION { Range(f) : f \in Uploads }
BarsUpTo(cursor) == { r \in AllBars : r.time <= cursor }

\* The query effect has run for the current cursor, timeframe and loaded
\* flag, it issued a request, and the answer to that request was written.
CursorResolved ==
    /\ initializedRef
    /\ dataLoaded
    /\ currentTimestamp >= 0
    /\ ~queryEffectDue
    /\ latestQuery.status = "shown"

C3_TableIsActiveSession ==
    (Quiescent /\ hasActiveSession) => SameBag(table, activeSession.candles)

\* C4: isInitializing stays true (dataLoaded false) as long as a load
\* sequence that was started has not finished.
C4_InitializingWhileLoading == loads # << >> => isInitializing

C6_Reinitialized == Quiescent => ~awaitReinit

\* ------------------------------------------------- the replay controller

\* op holds the last controller operation called and the state it was
\* called in; the steps that call nothing (an effect run, a fired tick that
\* waits for its render) change neither op nor what the properties below
\* read.

\* C2: whenever the timeline is not empty, the index is one of its
\* positions, 0 .. len - 1, whatever operations and ticks came before.
C2_IndexInRange == totalCandles > 0 => currentIndex \in 0 .. (totalCandles - 1)

\* C7: initialize(ts) called with a sequence other than the current one
\* gives timestamps = ts, index 0, not playing, and the speed it found.
C7_InitializeResets ==
    (op.name = "initialize" /\ op.arg # op.ts) =>
        /\ timestamps = op.arg
        /\ currentIndex = 0
        /\ ~isPlaying
        /\ playSpeed = op.speed

\* initialize was called while playing, past the first position and at a
\* speed other than the initial one, with a different, non-empty sequence
C7_Witness ==
    /\ op.name = "initialize" /\ op.arg # op.ts /\ op.arg # << >>
    /\ op.idx > 0 /\ op.play /\ op.speed = 150
    /\ timestamps = op.arg /\ playSpeed = 150

\* C8: initialize(ts) called when timestamps is ts already, at an index in
\* 0 .. len - 1, leaves the index and the playing flag as they were.
C8_InitializeIdempotent ==
    (/\ op.name = "initialize" /\ op.arg = op.ts
     /\ op.idx \in 0 .. (Len(op.ts) - 1)) =>
        /\ currentIndex = op.idx
        /\ isPlaying = op.play

C10_StepFrame ==
    op.name \in {"stepForward", "stepBackward", "setIndex"} =>
        /\ isPlaying = op.play
        /\ timestamps = op.ts
        /\ playSpeed = op.speed

\* setIndex moved the index while auto-play was running, and it still runs
C10_Witness ==
    /\ op.name = "setIndex" /\ op.play /\ isPlaying
    /\ currentIndex # op.idx
    /\ intervalRef.active

C12_PlayOnlyWhenReady ==
    /\ totalCandles = 0 => ~isPlaying
    /\ (op.name = "play" /\ Len(op.ts) > 0) => isPlaying
    /\ (op.name = "pause" /\ Len(op.ts) > 0) => ~isPlaying
    /\ (op.name = "togglePlay" /\ Len(op.ts) > 0) => (isPlaying = ~op.play)

\* C13: after reset playing is false and the index is 0, timestamps and
\* speed are what they were, and no interval is registered.
C13_ResetPauses ==
    op.name = "reset" =>
        /\ ~isPlaying
        /\ currentIndex = 0
        /\ timestamps = op.ts
        /\ playSpeed = op.speed
        /\ ~intervalRef.active

\* reset was called during auto-play past the first position
C13_Witness ==
    /\ op.name = "reset" /\ op.play /\ op.idx > 0 /\ op.speed = 150
    /\ Len(timestamps) = 3
    /\ ~isPlaying /\ currentIndex = 0

\* C14: auto-play left alone on a loaded timeline ends with playing false
\* at the last position, and the index never passes the last position.
C14_AutoplayTerminates ==
    /\ <>(~isPlaying /\ currentIndex = totalCandles - 1)
    /\ [](currentIndex <= totalCandles - 1)

\* the ticks walked a timeline of five from its start to its end and the
\* last one stopped auto-play
C14_Witness ==
    /\ totalCandles = 5 /\ op.name = "tick" /\ op.idx = 4 /\ op.play
    /\ currentIndex = 4 /\ ~isPlaying

\* C15: a tick advances the index by exactly 1 when playing and the index
\* is before the last position; a tick while not playing, or with an empty
\* timeline, changes neither the index nor the playing flag.
C15_TickOnlyWhilePlaying ==
    op.name = "tick" =>
        /\ (op.play /\ op.idx < Len(op.ts) - 1) =>
               (currentIndex = op.idx + 1 /\ isPlaying)
        /\ (~op.play \/ Len(op.ts) = 0) =>
               (currentIndex = op.idx /\ isPlaying = op.play)

\* C16: the browser never holds more than one auto-play interval, and the
\* one it holds is the one intervalRef is the handle of: an interval is
\* registered only after the one before it was cleared.
C16_OneTimer ==
    /\ Len(timers) <= 1
    /\ timers # << >> => (intervalRef.active /\ timers[1] = Held)

\* the speed was changed during auto-play and the effect has replaced the
\* interval: one interval, with the new delay
C16_Witness ==
    /\ op.name = "setSpeed" /\ op.play /\ op.speed = 300 /\ playSpeed = 150
    /\ ~replayEffectDue
    /\ timers = << [bound |-> totalCandles, delay |-> 150] >>

\* C17: setSpeed leaves the index alone and sets the speed; once the
\* auto-play effect has run, the interval of a playing controller has the
\* current speed as its delay and the current length as its bound.
C17_SpeedRestartsTimer ==
    /\ op.name = "setSpeed" => (currentIndex = op.idx /\ playSpeed = op.arg)
    /\ (isPlaying /\ totalCandles > 0 /\ ~replayEffectDue) =>
           timers = << [bound |-> totalCandles, delay |-> playSpeed] >>

\* setSpeed(150) during auto-play at 300, in the middle of a timeline of
\* three: the interval now has delay 150 and the index did not move
C17_Witness ==
    /\ op.name = "setSpeed" /\ op.arg = 150 /\ op.speed = 300 /\ op.play
    /\ totalCandles = 3 /\ op.idx = 1 /\ currentIndex = 1
    /\ isPlaying /\ ~replayEffectDue
    /\ Held = [bound |-> 3, delay |-> 150]

\* C18: progress is a number between 0 and 100: index / (len - 1) * 100
\* when the timeline has more than one element, 0 when it has one or none.
C18_ProgressDefined ==
    /\ progress.kind = "finite"
    /\ 0 <= progress.num /\ progress.num <= 100 * progress.den
    /\ totalCandles <= 1 => progress.num = 0
    /\ totalCandles > 1 =>
           progress.num * (totalCandles - 1) = currentIndex * 100 * progress.den

\* C19: currentTimestamp is null exactly when the timeline is empty, and
\* otherwise it is an element of the timestamps, the one at the index.
C19_CursorDefined ==
    /\ (currentTimestamp = Null) <=> (totalCandles = 0)
    /\ totalCandles > 0 =>
           /\ currentIndex \in 0 .. (totalCandles - 1)
           /\ currentTimestamp = timestamps[currentIndex + 1]

\* C20: a request is sent only with a session active and a cursor on the
\* timeline; it is the range query when the timeframe is the width of the
\* session's bars (the smallest distance between two of its bar times) and
\* the aggregate query otherwise.
C20_QueryFacade ==
    [][Len(queries') > Len(queries) =>
          LET q == queries'[Len(queries')]
              times == { r.time : r \in Range(activeSession.candles) }
              gaps == { p[2] - p[1] :
                          p \in { pp \in times \X times : pp[2] > pp[1] } }
          IN /\ hasActiveSession
             /\ currentTimestamp >= 0
             /\ gaps # {} =>
                    (q.kind = "range" <=> \A g \in gaps : q.timeframe <= g)]_vars

\* ------------------------------------------------------- the store alone

\* SELECT COUNT(*) FROM historical_data
getRowCount(tbl) == Len(tbl)

\* Bar lists as CsvUploader hands them over (ascending by time): two bars
\* at one time, and six consecutive 1-minute bars.
FileD ==
    << Bar(60, 40, 43, 39, 41, 1), Bar(60, 41, 45, 40, 44, 2),
       Bar(120, 44, 46, 38, 39, 3), Bar(360, 39, 42, 37, 40, 4) >>
FileE ==
    << Bar(300, 50, 52, 49, 51, 1), Bar(360, 51, 56, 50, 55, 2),
       Bar(420, 55, 57, 48, 49, 3), Bar(480, 49, 50, 45, 46, 4),
       Bar(540, 46, 53, 46, 52, 5), Bar(600, 52, 54, 47, 53, 6) >>
StoreFiles == Uploads \cup {FileD, FileE, << >>}

\* the cursors the queries are called with
Cursors == {0, 60, 120, 359, 360, 599, 600}

\* loadSessionIntoDB is called with a bar list; no other load is in flight
StoreLoad ==
    \E candles \in StoreFiles :
        /\ \A k \in 1 .. Len(loads) : loads[k].pc = "timestamps"
        /\ loads' = << NewLoad(candles) >>
        /\ op' = NoOp
        /\ UNCHANGED << replayVars, registryVars, visibleCandles, timeframe,
                        isInitializing, queries, table, libVars, effectVars,
                        latestQuery, awaitReinit >>

\* what a store call leaves alone
StoreCall ==
    /\ loads # << >> /\ loads[1].pc = "timestamps"
    /\ UNCHANGED << currentIndex, isPlaying, playSpeed, intervalRef, timers,
                    tickUpdate, registryVars, isInitializing, loads, queries,
                    table, libVars, effectVars, latestQuery, awaitReinit >>

StoreQueryCandles ==
    \E c \in Cursors :
        /\ StoreCall
        /\ visibleCandles' = queryCandles(table, c)
        /\ op' = [NoOp EXCEPT !.name = "queryCandles", !.arg = c]
        /\ UNCHANGED << timestamps, timeframe >>

StoreQueryAggregated ==
    \E c \in Cursors, w \in Timeframes :
        /\ StoreCall
        /\ visibleCandles' = queryAggregatedCandles(table, c, w)
        /\ timeframe' = w
        /\ op' = [NoOp EXCEPT !.name = "queryAggregatedCandles", !.arg = c]
        /\ UNCHANGED timestamps

StoreGetAllTimestamps ==
    /\ StoreCall
    /\ timestamps' = getAllTimestamps(table)
    /\ op' = [NoOp EXCEPT !.name = "getAllTimestamps"]
    /\ UNCHANGED << visibleCandles, timeframe >>

StoreGetRowCount ==
    /\ StoreCall
    /\ op' = [NoOp EXCEPT !.name = "getRowCount", !.arg = getRowCount(table)]
    /\ UNCHANGED << timestamps, visibleCandles, timeframe >>

StoreNext ==
    \/ StoreLoad
    \/ LoadCreate
    \/ LoadInsert
    \/ StoreQueryCandles
    \/ StoreQueryAggregated
    \/ StoreGetAllTimestamps
    \/ StoreGetRowCount

StoreSpec == ReplayInit /\ [][StoreNext]_vars

\* -------------------------------------------------- the registry alone

\* sessions ever added in one run of the registry
MaxSessions == 3

\* the bar lists handed to addSession; CsvUploader hands over an empty
\* list when no row of the file parses
RegistryFiles == {FileA, FileB, << >>}

\* the last step of the registry: its argument, the session active before
\* it, which storage accesses succeeded and whether it threw
RegistryOp(name, arg, metaOk, dataOk, threw) ==
    [name |-> name, arg |-> arg, active |-> activeSessionId,
     metaOk |-> metaOk, dataOk |-> dataOk, threw |-> threw]

\* what the registry's operations leave alone
RegistryFrame ==
    UNCHANGED << replayVars, pageVars, table, libVars, effectVars, latestQuery,
                 awaitReinit >>

RegistryInit ==
    /\ InitState
    /\ localStorage \in {NoStorage, OneStored}
    /\ nextId = Len(localStorage.meta) + 1
    /\ initializedRef = FALSE
    /\ op = RegistryOp("none", 0, TRUE, TRUE, FALSE)

\* the mount effect; the sessions it sets are rendered in a later render
RegistryMount ==
    \E metaOk \in BOOLEAN, readable \in SUBSET (DOMAIN localStorage.candles) :
        /\ ~initializedRef
        /\ initializedRef' = TRUE
        /\ LET loaded == RestoredSessions(metaOk, readable)
           IN IF Len(loaded) > 0
              THEN sessions' = loaded /\ activeSessionId' = loaded[1].id
              ELSE UNCHANGED << sessions, activeSessionId >>
        /\ UNCHANGED << nextId, localStorage, lastRender >>
        /\ op' = RegistryOp("mount", 0, metaOk,
                            readable = DOMAIN localStorage.candles, FALSE)
        /\ RegistryFrame

\* React renders the state the operations have set
RegistryRender ==
    /\ initializedRef
    /\ lastRender # RenderOf(sessions, activeSessionId)
    /\ lastRender' = RenderOf(sessions, activeSessionId)
    /\ UNCHANGED << sessions, activeSessionId, initializedRef, nextId,
                    localStorage >>
    /\ op' = RegistryOp("render", 0, TRUE, TRUE, FALSE)
    /\ RegistryFrame

\* handleDataLoaded, called from the continuation of file.text() on a
\* rendered page: the state it sets is rendered later
RegistryAdd ==
    \E candles \in RegistryFiles, metaOk \in BOOLEAN, candlesOk \in BOOLEAN :
        /\ initializedRef
        /\ lastRender = RenderOf(sessions, activeSessionId)
        /\ nextId <= MaxSessions
        /\ addSession(nextId, candles, metaOk, candlesOk)
        /\ UNCHANGED lastRender
        /\ op' = RegistryOp("add", nextId, metaOk, candlesOk, FALSE)
        /\ RegistryFrame

\* a click on a tab the last render shows; a click is rendered at once
RegistrySwitch ==
    \E k \in 1 .. Len(lastRender.sessions) :
        /\ initializedRef
        /\ switchSession(lastRender.sessions[k])
        /\ lastRender' = RenderOf(sessions', activeSessionId')
        /\ op' = RegistryOp("switch", lastRender.sessions[k], TRUE, TRUE, FALSE)
        /\ RegistryFrame

\* a click on the close button of a tab the last render shows
RegistryRemove ==
    \E k \in 1 .. Len(lastRender.sessions), metaOk \in BOOLEAN, removeOk \in BOOLEAN :
        /\ initializedRef
        /\ removeSession(lastRender.sessions[k], metaOk, removeOk)
        /\ lastRender' = RenderOf(sessions', activeSessionId')
        /\ op' = RegistryOp("remove", lastRender.sessions[k], metaOk, removeOk,
                            ~removeOk)
        /\ RegistryFrame

\* the page is loaded again: the state is the initial one, the storage stays
RegistryReload ==
    /\ initializedRef
    /\ sessions' = << >>
    /\ activeSessionId' = NoSession
    /\ initializedRef' = FALSE
    /\ lastRender' = RenderOf(<< >>, NoSession)
    /\ UNCHANGED << nextId, localStorage >>
    /\ op' = RegistryOp("reload", 0, TRUE, TRUE, FALSE)
    /\ RegistryFrame

RegistryNext ==
    \/ RegistryMount
    \/ RegistryRender
    \/ RegistryAdd
    \/ RegistrySwitch
    \/ RegistryRemove
    \/ RegistryReload

RegistrySpec == RegistryInit /\ [][RegistryNext]_vars

\* ------------------------------------------------------------- the store

RECURSIVE VolumeOver(_, _)
\* the volumes of the rows of tbl at the positions S, added up
VolumeOver(tbl, S) ==
    IF S = {} THEN 0
    ELSE LET k == CHOOSE j \in S : TRUE
         IN tbl[k].volume + VolumeOver(tbl, S \ {k})

\* C21: the aggregate query with width W and cursor c answers one bar per
\* non-empty bucket of the stored bars at or before c, ascending by bucket
\* start; a bucket starts at a multiple of W and holds the bars from its
\* start up to W later; its bar has the open of an earliest bar, the
\* highest high, the lowest low, the close of a latest bar and the sum of
\* the volumes of the bucket.
C21_Aggregate ==
    op.name = "queryAggregatedCandles" =>
        LET W == timeframe
            seen == { i \in 1 .. Len(table) : table[i].time <= op.arg }
            In(b) == { i \in seen : b <= table[i].time /\ table[i].time < b + W }
            res == visibleCandles
        IN /\ \A i \in seen : \E k \in 1 .. Len(res) : i \in In(res[k].time)
           /\ \A k \in 1 .. (Len(res) - 1) : res[k].time < res[k + 1].time
           /\ \A k \in 1 .. Len(res) :
                  LET g == In(res[k].time)
                  IN /\ res[k].time % W = 0
                     /\ g # {}
                     /\ \E i \in g :
                            /\ \A j \in g : table[i].time <= table[j].time
                            /\ res[k].open = table[i].open
                     /\ \E i \in g :
                            /\ \A j \in g : table[j].time <= table[i].time
                            /\ res[k].close = table[i].close
                     /\ \E i \in g : res[k].high = table[i].high
                     /\ \A i \in g : table[i].high <= res[k].high
                     /\ \E i \in g : res[k].low = table[i].low
                     /\ \A i \in g : res[k].low <= table[i].low
                     /\ res[k].volume = VolumeOver(table, g)

\* a bucket of several bars, with a later bar hidden by the cursor
C21_Witness ==
    /\ op.name = "queryAggregatedCandles"
    /\ timeframe = 300
    /\ \E r \in Range(table) : r.time > op.arg
    /\ \E k \in 1 .. Len(visibleCandles) :
           Cardinality({ i \in 1 .. Len(table) :
                           /\ table[i].time <= op.arg
                           /\ visibleCandles[k].time <= table[i].time
                           /\ table[i].time < visibleCandles[k].time + 300 }) >= 3

\* C22: the timeline read from the table is strictly ascending and holds
\* exactly the times of the rows; every inserted bar is a row of its own:
\* the row count is the number of bars inserted, and the range query
\* answers every bar at or before the cursor as often as it was inserted.
C22_DistinctTimeline ==
    /\ op.name = "getAllTimestamps" =>
           /\ \A k \in 1 .. (Len(timestamps) - 1) : timestamps[k] < timestamps[k + 1]
           /\ Range(timestamps) = { table[i].time : i \in 1 .. Len(table) }
    /\ op.name = "getRowCount" => op.arg = Len(loads[1].candles)
    /\ op.name = "queryCandles" =>
           /\ \A r \in Range(loads[1].candles) :
                  r.time <= op.arg =>
                      Count(visibleCandles, r) = Count(loads[1].candles, r)
           /\ \A r \in Range(visibleCandles) :
                  r.time <= op.arg /\ r \in Range(loads[1].candles)

\* two bars at one time: one entry of the timeline, two rows
C22_Witness ==
    /\ op.name = "getAllTimestamps"
    /\ Len(timestamps) = 3
    /\ getRowCount(table) = 4
    /\ Len(queryCandles(table, 60)) = 2

\* ------------------------------------------- loads with a failing store

\* The page without the replay controls, with a store that may reject any
\* statement of a load.
IngestInit ==
    /\ InitState
    /\ localStorage \in {NoStorage, OneStored}
    /\ nextId = Len(localStorage.meta) + 1
    /\ initializedRef = FALSE
    /\ op = Prior

IngestNext ==
    \/ Mount
    \/ HandleDataLoaded
    \/ HandleTabSelect
    \/ HandleTabClose
    \/ SetTimeframe
    \/ FlushEffects
    \/ LoadCreate
    \/ LoadInsert
    \/ LoadFinish
    \/ LoadFail
    \/ LoadCatch
    \/ QueryResponse

IngestSpec == IngestInit /\ [][IngestNext]_vars

\* ---------------------------------------------------------- bulk insert

\* a parsed file of n bars: one bar a minute, or two bars at every time
BulkFile(n, perTime) ==
    [k \in 1 .. n |->
        Bar(60 * ((k + perTime - 1) \div perTime), 100 + (k % 7), 110 + (k % 5),
            90 + (k % 3), 100 + (k % 11), k)]

\* around no bar, one batch, two batches and three batches
BulkSizes ==
    {0, 1, 2, 3, 4998, 4999, 5000, 5001, 5002, 9999, 10000, 10001, 14999,
     15000, 15001}

\* loadSessionIntoDB has been called with a parsed file and has set
\* isInitializing; the table is absent (empty) or holds an earlier session
InsertInit ==
    /\ timestamps = << >>
    /\ currentIndex = 0
    /\ isPlaying = FALSE
    /\ playSpeed = 300
    /\ intervalRef = NoInterval
    /\ timers = << >>
    /\ tickUpdate = << >>
    /\ sessions = << >>
    /\ activeSessionId = NoSession
    /\ lastRender = RenderOf(<< >>, NoSession)
    /\ visibleCandles = << >>
    /\ timeframe = 60
    /\ isInitializing = TRUE
    /\ loads \in { << NewLoad(BulkFile(n, p)) >> : n \in BulkSizes, p \in {1, 2} }
    /\ queries = << >>
    /\ table \in { << >>, FileA }
    /\ LibInitState
    /\ replayEffectDue = FALSE
    /\ sessionEffectDue = FALSE
    /\ queryEffectDue = FALSE
    /\ latestQuery = [status |-> "none", bars |-> << >>]
    /\ awaitReinit = FALSE
    /\ localStorage = NoStorage
    /\ nextId = 1
    /\ initializedRef = TRUE
    /\ op = [NoOp EXCEPT !.name = "off"]

InsertNext ==
    \/ LoadCreate
    \/ LoadInsert

InsertSpec == InsertInit /\ [][InsertNext]_vars

\* C23: every statement of a load into a fresh table leaves the table a
\* prefix of the bar list, in the list's order, grown by at most 5000 rows;
\* when the last batch is in, the table is the bar list.
C23_BulkInsert ==
    [][LET l == loads'[1]
       IN /\ Len(table') <= Len(table) + BATCH_SIZE
          /\ Len(table') <= Len(l.candles)
          /\ table' = SubSeq(l.candles, 1, Len(table'))
          /\ l.pc = "insert" => Len(table') < Len(l.candles)
          /\ l.pc = "timestamps" => table' = l.candles]_vars

\* a bar list of exactly one batch is in
C23_Witness ==
    /\ loads[1].pc = "timestamps"
    /\ loads[1].i = BATCH_SIZE
    /\ Len(table) = BATCH_SIZE
    /\ table = loads[1].candles

\* ----------------------------------------------------------- the registry

\* C24: add appends a session with an id no session and no stored item has,
\* leaves the sessions before it as they were, makes it active, and writes
\* the identity list and the payload under the id (each write that the
\* storage accepts), leaving the other payloads alone.
C24_AddAppends ==
    [][op'.name = "add" =>
          LET new == sessions'[Len(sessions')]
          IN /\ Len(sessions') = Len(sessions) + 1
             /\ SubSeq(sessions', 1, Len(sessions)) = sessions
             /\ new.id = op'.arg
             /\ \A k \in 1 .. Len(sessions) : sessions[k].id # new.id
             /\ new.id \notin DOMAIN localStorage.candles
             /\ \A k \in 1 .. Len(localStorage.meta) : localStorage.meta[k] # new.id
             /\ activeSessionId' = new.id
             /\ op'.metaOk => localStorage'.meta = Ids(sessions')
             /\ op'.dataOk =>
                    /\ new.id \in DOMAIN localStorage'.candles
                    /\ localStorage'.candles[new.id] = new.candles
             /\ \A i \in DOMAIN localStorage.candles :
                    /\ i \in DOMAIN localStorage'.candles
                    /\ localStorage'.candles[i] = localStorage.candles[i]]_vars

\* a third session has been added and persisted
C24_Witness ==
    /\ op.name = "add"
    /\ Len(sessions) = 3
    /\ activeSessionId = sessions[3].id
    /\ localStorage.meta = Ids(sessions)
    /\ sessions[3].id \in DOMAIN localStorage.candles

\* C25: remove takes the session out of the list and leaves the others in
\* their order, deletes its payload and its identity (each where the
\* storage accepts the access), and moves the activation exactly when the
\* session was the active one: to the first remaining session, or to none.
C25_RemoveActivates ==
    [][op'.name = "remove" =>
          LET id == op'.arg
          IN /\ sessions' = SelectSeq(sessions, LAMBDA s : s.id # id)
             /\ op'.dataOk => id \notin DOMAIN localStorage'.candles
             /\ op'.metaOk =>
                    \A k \in 1 .. Len(localStorage'.meta) :
                        localStorage'.meta[k] # id
             /\ activeSessionId' =
                    IF id # activeSessionId THEN activeSessionId
                    ELSE IF Len(sessions') > 0 THEN sessions'[1].id
                    ELSE NoSession]_vars

\* C26: switch sets the active id to its argument and changes nothing
\* else: the session list with every session's bars, and the stored
\* identities and payloads, are the same before and after.
C26_SwitchOnlyActive ==
    [][op'.name = "switch" =>
          /\ activeSessionId' = op'.arg
          /\ sessions' = sessions
          /\ localStorage' = localStorage]_vars

\* a switch from one of three sessions to another
C26_Witness ==
    /\ op.name = "switch"
    /\ op.arg # op.active
    /\ activeSessionId = op.arg
    /\ Len(sessions) = 3
    /\ sessions[1].id # op.arg

\* C27: the mount effect, when its reads of the storage succeed, restores
\* the stored identities that have a non-empty payload, in the stored
\* order and with that payload, makes the first of them active (none when
\* there is none) and leaves the storage alone; an add whose payload write
\* failed leaves no payload under its id, so that session is not restored.
C27_RestoreFilters ==
    [][/\ op'.name = "mount" /\ op'.metaOk /\ op'.dataOk =>
              LET present(id) == /\ id \in DOMAIN localStorage.candles
                                 /\ localStorage.candles[id] # << >>
                  kept == SelectSeq(localStorage.meta, present)
              IN /\ Ids(sessions') = kept
                 /\ \A k \in 1 .. Len(sessions') :
                        sessions'[k].candles = localStorage.candles[kept[k]]
                 /\ activeSessionId' = IF kept = << >> THEN NoSession ELSE kept[1]
                 /\ localStorage' = localStorage
       /\ op'.name = "add" /\ ~op'.dataOk =>
              op'.arg \notin DOMAIN localStorage'.candles]_vars

\* a restart after an add whose payload write failed: the identity is
\* stored, the session is not restored, another one is
C27_Witness ==
    /\ op.name = "mount" /\ op.metaOk /\ op.dataOk
    /\ Len(sessions) >= 1
    /\ activeSessionId = sessions[1].id
    /\ \E k \in 1 .. Len(localStorage.meta) :
           /\ localStorage.meta[k] \notin DOMAIN localStorage.candles
           /\ \A j \in 1 .. Len(sessions) : sessions[j].id # localStorage.meta[k]

\* C28: whichever storage access fails, no registry operation throws, and
\* add, remove and switch change the session list and the active id as
\* they do with a working storage.
C28_PersistenceBestEffort ==
    [][/\ op'.name \in {"mount", "add", "remove", "switch"} => ~op'.threw
       /\ op'.name = "add" =>
              /\ Len(sessions') = Len(sessions) + 1
              /\ SubSeq(sessions', 1, Len(sessions)) = sessions
              /\ activeSessionId' = op'.arg
       /\ op'.name = "remove" =>
              sessions' = SelectSeq(sessions, LAMBDA s : s.id # op'.arg)
       /\ op'.name = "switch" =>
              sessions' = sessions /\ activeSessionId' = op'.arg]_vars

\* ---------------------------------------------------------- store errors

\* C29: when a statement of a load has failed, the session list, the active
\* session, the replay state and the table are what they were when the
\* ingestion or the activation started.
C29_FailedLoadLeavesState ==
    (\E k \in 1 .. Len(loads) : loads[k].pc = "catch") =>
        /\ Ids(sessions) = Ids(op.sessions)
        /\ activeSessionId = op.active
        /\ timestamps = op.ts
        /\ currentIndex = op.idx
        /\ isPlaying = op.play
        /\ table = op.table

\* ------------------------------------------------------------ CsvUploader

\* A header cell is the sequence of its characters.
UpperCase == << "A", "B", "C", "D", "E", "F", "G", "H", "I", "J", "K", "L", "M", "N", "O", "P", "Q", "R", "S", "T", "U", "V", "W", "X", "Y", "Z" >>
LowerCase == << "a", "b", "c", "d", "e", "f", "g", "h", "i", "j", "k", "l", "m", "n", "o", "p", "q", "r", "s", "t", "u", "v", "w", "x", "y", "z" >>

toLowerCase(s) ==
    [k \in 1 .. Len(s) |->
        IF \E j \in 1 .. 26 : UpperCase[j] = s[k]
        THEN LowerCase[CHOOSE j \in 1 .. 26 : UpperCase[j] = s[k]]
        ELSE s[k]]

trim(s) ==
    LET inked == { k \in 1 .. Len(s) : s[k] # " " }
    IN  IF inked = {} THEN << >>
        ELSE SubSeq(s, CHOOSE k \in inked : \A j \in inked : k <= j,
                       CHOOSE k \in inked : \A j \in inked : k >= j)

\* .replace(/[<>"]/g, '')
IsDecoration(c) == c \in {"<", ">", "\""}
replace(s) == SelectSeq(s, LAMBDA c : ~IsDecoration(c))

endsWith(h, name) ==
    /\ Len(h) >= Len(name)
    /\ SubSeq(h, Len(h) - Len(name) + 1, Len(h)) = name

\* String.prototype.includes
hasSubstring(h, part) ==
    \E k \in 1 .. Len(h) - Len(part) + 1 : SubSeq(h, k, k + Len(part) - 1) = part

\* Array.prototype.includes
includes(arr, x) == \E k \in 1 .. Len(arr) : arr[k] = x

\* the zero-based index of the first element that satisfies the test, or -1
First(hits) ==
    IF hits = {} THEN -1 ELSE (CHOOSE k \in hits : \A j \in hits : k <= j) - 1

indexOf(arr, x) == First({ k \in 1 .. Len(arr) : arr[k] = x })

findIndexOrLast(headers, name) ==
    LET hits == { k \in 1 .. Len(headers) :
                    headers[k] = name \/ endsWith(headers[k], name) }
    IN  IF hits = {} THEN Len(headers) - 1 ELSE First(hits)

findIndex(headers, name) ==
    First({ k \in 1 .. Len(headers) :
              headers[k] = name \/ endsWith(headers[k], name) })

findCol(headers, names) ==
    LET found == { j \in 1 .. Len(names) : findIndex(headers, names[j]) >= 0 }
    IN  IF found = {} THEN -1
        ELSE findIndex(headers, names[CHOOSE j \in found : \A i \in found : j <= i])

\* the names detectFormat looks for
Name ==
    [ open_time |-> << "o", "p", "e", "n", "_", "t", "i", "m", "e" >>,
      date |-> << "d", "a", "t", "e" >>,
      dtyyyymmdd |-> << "d", "t", "y", "y", "y", "y", "m", "m", "d", "d" >>,
      dt |-> << "d", "t" >>,
      timestamp |-> << "t", "i", "m", "e", "s", "t", "a", "m", "p" >>,
      time |-> << "t", "i", "m", "e" >>,
      datetime |-> << "d", "a", "t", "e", "t", "i", "m", "e" >>,
      open |-> << "o", "p", "e", "n" >>,
      high |-> << "h", "i", "g", "h" >>,
      low |-> << "l", "o", "w" >>,
      close |-> << "c", "l", "o", "s", "e" >>,
      volume |-> << "v", "o", "l", "u", "m", "e" >>,
      vol |-> << "v", "o", "l" >> ]

\* detectFormat returns null
NoMapping == [timestampFormat |-> "null"]

ColumnMapping(ts, op_, hi, lo, cl, vo, fmt) ==
    [timestamp |-> ts, open |-> op_, high |-> hi, low |-> lo, close |-> cl,
     volume |-> vo, timestampFormat |-> fmt]

OrElse(idx, fallback) == IF idx >= 0 THEN idx ELSE fallback

detectFormat(headers) ==
    LET lower == [k \in 1 .. Len(headers) |->
                     replace(toLowerCase(trim(headers[k])))]
        ts == findCol(lower, << Name.timestamp, Name.time, Name.datetime,
                                Name.date >>)
        op_ == findCol(lower, << Name.open >>)
        hi == findCol(lower, << Name.high >>)
        lo == findCol(lower, << Name.low >>)
        cl == findCol(lower, << Name.close >>)
        vo == findCol(lower, << Name.volume, Name.vol >>)
    IN  IF includes(lower, Name.open_time) \/ lower[1] = Name.open_time
        THEN ColumnMapping(OrElse(indexOf(lower, Name.open_time), 0),
                           op_, hi, lo, cl,
                           findCol(lower, << Name.volume >>), "unix_ms")
        ELSE IF includes(lower, Name.date) /\ includes(lower, Name.open)
        THEN ColumnMapping(indexOf(lower, Name.date), op_, hi, lo, cl, vo, "stooq")
        ELSE IF \/ includes(lower, Name.dtyyyymmdd)
                \/ includes(lower, Name.date)
                \/ hasSubstring(lower[1], Name.dt)
        THEN ColumnMapping(0, OrElse(op_, 2), OrElse(hi, 3), OrElse(lo, 4),
                           OrElse(cl, 5),
                           OrElse(findCol(lower, << Name.vol, Name.volume >>), 6),
                           "histdata")
        ELSE IF ts >= 0 /\ op_ >= 0 /\ hi >= 0 /\ lo >= 0 /\ cl >= 0
        THEN ColumnMapping(ts, op_, hi, lo, cl, vo, "iso")
        ELSE IF Len(lower) >= 5
        THEN ColumnMapping(0, 1, 2, 3, 4, IF Len(lower) > 5 THEN 5 ELSE -1,
                           "unix_auto")
        ELSE NoMapping

\* the cells of the short first lines: open_time, Open, Date, <DTYYYYMMDD>, id,
\* 1700000000, width
HeaderCells ==
    { << "o", "p", "e", "n", "_", "t", "i", "m", "e" >>,
      << "O", "p", "e", "n" >>,
      << "D", "a", "t", "e" >>,
      << "<", "D", "T", "Y", "Y", "Y", "Y", "M", "M", "D", "D", ">" >>,
      << "i", "d" >>,
      << "1", "7", "0", "0", "0", "0", "0", "0", "0", "0" >>,
      << "w", "i", "d", "t", "h" >> }

MaxShort == 2

\* the longer first lines
LongHeaders ==
    { \* Binance
      << << "o", "p", "e", "n", "_", "t", "i", "m", "e" >>,
            << "o", "p", "e", "n" >>,
            << "h", "i", "g", "h" >>,
            << "l", "o", "w" >>,
            << "c", "l", "o", "s", "e" >>,
            << "v", "o", "l", "u", "m", "e" >> >>,
      \* Stooq
      << << "D", "a", "t", "e" >>,
            << "O", "p", "e", "n" >>,
            << "H", "i", "g", "h" >>,
            << "L", "o", "w" >>,
            << "C", "l", "o", "s", "e" >>,
            << "V", "o", "l", "u", "m", "e" >> >>,
      \* HistData
      << << "<", "D", "T", "Y", "Y", "Y", "Y", "M", "M", "D", "D", ">" >>,
            << "<", "T", "I", "C", "K", "T", "I", "M", "E", ">" >>,
            << "<", "O", "P", "E", "N", ">" >>,
            << "<", "H", "I", "G", "H", ">" >>,
            << "<", "L", "O", "W", ">" >>,
            << "<", "C", "L", "O", "S", "E", ">" >>,
            << "<", "V", "O", "L", ">" >> >>,
      \* generic names
      << << "T", "i", "m", "e", "s", "t", "a", "m", "p" >>,
            << "O", "p", "e", "n" >>,
            << "H", "i", "g", "h" >>,
            << "L", "o", "w" >>,
            << "C", "l", "o", "s", "e" >> >>,
      \* no header, five columns
      << << "1", "7", "0", "0", "0", "0", "0", "0", "0", "0" >>,
            << "1" >>,
            << "2" >>,
            << "3" >>,
            << "4" >> >>,
      \* unknown names, five columns
      << << "i", "d" >>,
            << "a" >>,
            << "b" >>,
            << "c" >>,
            << "d" >> >>,
      \* unknown names, four columns
      << << "i", "d" >>,
            << "a" >>,
            << "b" >>,
            << "c" >> >>,
      \* a date column that is not the first
      << << "i", "d" >>,
            << "D", "a", "t", "e" >>,
            << "v", "a", "l", "u", "e" >> >>,
      \* a date and a close column
      << << "i", "d" >>,
            << "D", "a", "t", "e" >>,
            << " ", "c", "l", "o", "s", "e", " " >> >> }

Headers ==
    UNION { [1 .. n -> HeaderCells] : n \in 1 .. MaxShort } \cup LongHeaders

\* A file: its first line split at the delimiter, the number of its non-empty
\* lines, and the bars its rows parse to under the mapping of the first line
\* (none when a row has fewer than five fields, as the first line has).
Files ==
    { [header |-> h, lines |-> 1, candles |-> << >>] : h \in LongHeaders }
        \cup { [header |-> h, lines |-> 2, candles |-> << >>] : h \in Headers }
        \cup { [header |-> h, lines |-> 2, candles |-> FileA] :
                 h \in { l \in LongHeaders : Len(l) >= 5 } }

\* CsvUploader's status line, and the first line of the last file processed
Uploader(status, header) ==
    [name |-> "upload", status |-> status, header |-> header]

\* processFile from the continuation of `await file.text()` to its end
processFile(file) ==
    LET mapping == detectFormat(file.header)
    IN  /\ IF file.lines < 2
           THEN /\ op' = Uploader("Error: file is empty or has no data rows.",
                                  file.header)
                /\ UNCHANGED << replayVars, registryVars, pageVars, table, libVars,
                                effectVars, latestQuery, awaitReinit >>
           ELSE IF mapping.timestampFormat = "null"
           THEN /\ op' = Uploader("Error: unable to detect CSV format.",
                                  file.header)
                /\ UNCHANGED << replayVars, registryVars, pageVars, table, libVars,
                                effectVars, latestQuery, awaitReinit >>
           ELSE /\ op' = Uploader("Loaded", file.header)
                /\ handleDataLoaded(file.candles)

ProcessFile ==
    \E file \in Files :
        /\ Rendered
        /\ processFile(file)

UploadInit ==
    /\ InitState
    /\ localStorage \in {NoStorage, OneStored}
    /\ nextId = Len(localStorage.meta) + 1
    /\ initializedRef = FALSE
    /\ op = Uploader("", << >>)

UploadNext ==
    \/ Mount
    \/ ProcessFile
    \/ FlushEffects
    \/ LoadCreate
    \/ LoadInsert
    \/ LoadFinish
    \/ QueryResponse

UploadSpec == UploadInit /\ [][UploadNext]_vars

\* C30: when no column mapping is found for the first line, the uploader
\* shows the format error and no session is added, no table is created or
\* replaced and the replay state is unchanged; and no mapping is found
\* exactly when none of the five detection rules applies: no open_time
\* token, not both a date and an open token, a first token that is not
\* date-like, not all of the timestamp, open, high, low and close names, and
\* fewer than five columns.
C30_FormatError ==
    [][(op' # op /\ op'.status # "Error: file is empty or has no data rows.") =>
        LET tokens == [k \in 1 .. Len(op'.header) |->
                          replace(toLowerCase(trim(op'.header[k])))]
            dateLike == \/ tokens[1] \in {Name.date, Name.dtyyyymmdd}
                        \/ hasSubstring(tokens[1], Name.dt)
            named(names) == findCol(tokens, names) >= 0
            noRule ==
                /\ ~includes(tokens, Name.open_time)
                /\ ~(includes(tokens, Name.date) /\ includes(tokens, Name.open))
                /\ ~dateLike
                /\ ~(/\ named(<< Name.timestamp, Name.time, Name.datetime, Name.date >>)
                     /\ named(<< Name.open >>) /\ named(<< Name.high >>)
                     /\ named(<< Name.low >>) /\ named(<< Name.close >>))
                /\ Len(tokens) < 5
            noMatch == op'.status = "Error: unable to detect CSV format."
        IN  /\ noMatch <=> noRule
            /\ noMatch => UNCHANGED << sessions, activeSessionId, localStorage,
                                       table, loads, timestamps, currentIndex,
                                       isPlaying >>
      ]_vars

\* ------------------------------------------------------ detection alone

\* the cells appended after the last column: note, Volume, Date, open_time,
\* Adj Close
TrailCells ==
    { << "n", "o", "t", "e" >>,
      << "V", "o", "l", "u", "m", "e" >>,
      << "D", "a", "t", "e" >>,
      << "o", "p", "e", "n", "_", "t", "i", "m", "e" >>,
      << "A", "d", "j", " ", "C", "l", "o", "s", "e" >> }

MaxTrail == 2

\* the first line handed to detectFormat, the mapping it returned, and the
\* number of columns appended to the first line since
Detection(header, mapping, trail) ==
    [name |-> "detect", header |-> header, mapping |-> mapping, trail |-> trail]

DetectInit ==
    /\ InitState
    /\ localStorage = NoStorage
    /\ nextId = 1
    /\ initializedRef = TRUE
    /\ \E h \in Headers : op = Detection(h, NoMapping, -1)

DetectFrame ==
    UNCHANGED << replayVars, registryVars, pageVars, table, libVars, effectVars,
                 latestQuery, awaitReinit >>

\* processFile reaches `const mapping = detectFormat(headers)`
Detect ==
    /\ op.trail = -1
    /\ op' = Detection(op.header, detectFormat(op.header), 0)
    /\ DetectFrame

\* the same file with one more column after the last one
DetectWider ==
    \E cell \in TrailCells :
        /\ op.trail \in 0 .. MaxTrail - 1
        /\ op' = Detection(Append(op.header, cell),
                           detectFormat(Append(op.header, cell)), op.trail + 1)
        /\ DetectFrame

DetectNext ==
    \/ Detect
    \/ DetectWider

DetectSpec == DetectInit /\ [][DetectNext]_vars

\* the header tokens: case-folded, stripped of quoting and bracket decoration
Tokens(header) ==
    [k \in 1 .. Len(header) |-> replace(toLowerCase(trim(header[k])))]

Carries(token, names) == \E k \in 1 .. Len(names) : endsWith(token, names[k])

\* the lowest-numbered detection rule whose condition holds, 0 when none does
RuleOf(tokens) ==
    LET named(names) == \E k \in 1 .. Len(tokens) : Carries(tokens[k], names)
    IN  IF includes(tokens, Name.open_time) THEN 1
        ELSE IF includes(tokens, Name.date) /\ includes(tokens, Name.open) THEN 2
        ELSE IF \/ tokens[1] \in {Name.date, Name.dtyyyymmdd}
                \/ hasSubstring(tokens[1], Name.dt) THEN 3
        ELSE IF /\ named(<< Name.timestamp, Name.time, Name.datetime, Name.date >>)
                /\ named(<< Name.open >>) /\ named(<< Name.high >>)
                /\ named(<< Name.low >>) /\ named(<< Name.close >>) THEN 4
        ELSE IF Len(tokens) >= 5 THEN 5
        ELSE 0

FormatOf(rule) ==
    CASE rule = 1 -> "unix_ms" [] rule = 2 -> "stooq" [] rule = 3 -> "histdata"
      [] rule = 4 -> "iso" [] rule = 5 -> "unix_auto" [] OTHER -> "null"

\* index idx of the mapping points at a column that carries one of the names,
\* when some column does
PointsAt(tokens, idx, names) ==
    (\E k \in 1 .. Len(tokens) : Carries(tokens[k], names)) =>
        /\ idx \in 0 .. Len(tokens) - 1
        /\ Carries(tokens[idx + 1], names)

\* C31: detection is priority-ordered: the mapping returned for a header is
\* the one of the lowest-numbered rule whose condition holds (1 an open_time
\* token, 2 a date and an open token, 3 a date-like first token, 4 names for
\* timestamp, open, high, low and close, 5 five columns or more), and its
\* time, open, high, low and close indices point at the columns that carry
\* those names.
C31_PriorityOrder ==
    (op.name = "detect" /\ op.trail >= 0) =>
        LET tokens == Tokens(op.header)
            rule == RuleOf(tokens)
            m == op.mapping
        IN  /\ m.timestampFormat = FormatOf(rule)
            /\ rule \in 1 .. 4 =>
                /\ PointsAt(tokens, m.open, << Name.open >>)
                /\ PointsAt(tokens, m.high, << Name.high >>)
                /\ PointsAt(tokens, m.low, << Name.low >>)
                /\ PointsAt(tokens, m.close, << Name.close >>)
            /\ rule = 1 => tokens[m.timestamp + 1] = Name.open_time
            /\ rule = 2 => tokens[m.timestamp + 1] = Name.date
            /\ rule = 3 => m.timestamp = 0
            /\ rule = 4 => PointsAt(tokens, m.timestamp,
                                    << Name.timestamp, Name.time, Name.datetime,
                                       Name.date >>)
            /\ rule = 5 => << m.timestamp, m.open, m.high, m.low, m.close >>
                              = << 0, 1, 2, 3, 4 >>

\* the names a column can carry for the detector
DetectorNames ==
    << Name.open_time, Name.date, Name.dtyyyymmdd, Name.timestamp, Name.time,
       Name.datetime, Name.open, Name.high, Name.low, Name.close, Name.volume,
       Name.vol >>

\* a column was appended to a first line that matches one of rules 1 to 4
WiderStep ==
    /\ op.name = "detect" /\ op.trail >= 0
    /\ op'.trail = op.trail + 1
    /\ RuleOf(Tokens(op.header)) \in 1 .. 4

\* C32 as stated: for a header that matches one of rules 1 to 4, one more
\* trailing column of any name leaves the detected mapping and timestamp
\* encoding unchanged.
C32_AnyTrailing ==
    [][WiderStep => op'.mapping = op.mapping]_vars

\* C32: for a header that matches one of rules 1 to 4, one more trailing
\* column whose token neither is nor ends with a name the detector looks for
\* leaves the detected mapping and timestamp encoding unchanged.
C32_PlainTrailing ==
    [][(WiderStep /\ ~Carries(Tokens(op'.header)[Len(op'.header)], DetectorNames))
          => op'.mapping = op.mapping]_vars

C32_Witness ==
    /\ op.name = "detect" /\ op.trail = MaxTrail
    /\ LET tokens == Tokens(op.header)
           n == Len(tokens)
       IN  /\ RuleOf(SubSeq(tokens, 1, n - 2)) = 4
           /\ ~Carries(tokens[n], DetectorNames)
           /\ ~Carries(tokens[n - 1], DetectorNames)
           /\ op.mapping.timestampFormat = "iso"
           /\ op.mapping.volume = -1

\* ---------------------------------------------------------- parseTimestamp

\* A number too wide for the checker's integers is the sequence of its
\* decimal digits, without leading zeros.
Digit == << "0", "1", "2", "3", "4", "5", "6", "7", "8", "9" >>

NaN == << "N", "a", "N" >>

\* cols[i] for an index the row does not have
NoCell == << "undefined" >>

IsDigits(s) == s # << >> /\ \A k \in 1 .. Len(s) : includes(Digit, s[k])

StripZeros(s) ==
    LET inked == { k \in 1 .. Len(s) : s[k] # "0" }
    IN  IF inked = {} THEN << "0" >>
        ELSE SubSeq(s, CHOOSE k \in inked : \A j \in inked : k <= j, Len(s))

\* Number(value), for a cell of digits, an empty cell or any other text
Number(value) ==
    IF value = NoCell THEN NaN
    ELSE IF trim(value) = << >> THEN << "0" >>
    ELSE IF IsDigits(trim(value)) THEN StripZeros(trim(value))
    ELSE NaN

\* 10^k
Pow10(k) == << "1" >> \o [j \in 1 .. k |-> "0"]

\* n > 10^k
GreaterThanPow10(n, k) ==
    /\ n # NaN
    /\ Len(n) > k + 1 \/ (Len(n) = k + 1 /\ n # Pow10(k))

\* Math.floor(n / 10^k)
FloorDivPow10(n, k) ==
    IF n = NaN THEN NaN
    ELSE IF Len(n) > k THEN SubSeq(n, 1, Len(n) - k)
    ELSE << "0" >>

DigitValue(c) == (CHOOSE j \in 1 .. 10 : Digit[j] = c) - 1

RECURSIVE ToInt(_)
ToInt(s) ==
    IF s = << >> THEN 0
    ELSE 10 * ToInt(SubSeq(s, 1, Len(s) - 1)) + DigitValue(s[Len(s)])

\* the longest run of digits s starts with
DigitPrefix(s) ==
    LET stops == { k \in 1 .. Len(s) : ~includes(Digit, s[k]) }
    IN  IF stops = {} THEN s
        ELSE SubSeq(s, 1, (CHOOSE k \in stops : \A j \in stops : k <= j) - 1)

trimStart(s) ==
    LET inked == { k \in 1 .. Len(s) : s[k] # " " }
    IN  IF inked = {} THEN << >>
        ELSE SubSeq(s, CHOOSE k \in inked : \A j \in inked : k <= j, Len(s))

\* parseInt and parseFloat of a cell without sign, point or exponent: the
\* number its leading digits spell, NaN when it has none
parseInt(s) ==
    IF s = NoCell \/ DigitPrefix(trimStart(s)) = << >> THEN NaN
    ELSE StripZeros(DigitPrefix(trimStart(s)))

parseFloat(s) == parseInt(s)

isNaN(n) == n = NaN

\* s.slice(from, to), zero-based, to exclusive
slice(s, from, to) == SubSeq(s, from + 1, Min(to, Len(s)))

\* days from 1970-01-01 to the civil date y-m-d (m from 1)
DaysFromCivil(y, m, d) ==
    LET yy == IF m <= 2 THEN y - 1 ELSE y
        era == yy \div 400
        yoe == yy - era * 400
        mp == (m + 9) % 12
        doy == (153 * mp + 2) \div 5 + d - 1
        doe == yoe * 365 + yoe \div 4 - yoe \div 100 + doy
    IN  era * 146097 + doe - 719468

RECURSIVE ToDigits(_)
ToDigits(n) ==
    IF n < 10 THEN << Digit[n + 1] >>
    ELSE ToDigits(n \div 10) \o << Digit[(n % 10) + 1] >>

\* Math.floor(new Date(y, month - 1, d, hh, mm, ss).getTime() / 1000) on a
\* machine whose local time is offset minutes ahead of UTC, for a date from
\* 1970-01-02 on; the arguments are numbers as parseInt returns them
DateLocal(y, month, d, hh, mm, ss, offset) ==
    IF isNaN(y) \/ isNaN(month) \/ isNaN(d) \/ isNaN(hh) \/ isNaN(mm) \/ isNaN(ss)
    THEN NaN
    ELSE ToDigits(DaysFromCivil(ToInt(y), ToInt(month), ToInt(d)) * 86400
                    + ToInt(hh) * 3600 + ToInt(mm) * 60 + ToInt(ss)
                    - offset * 60)

\* value.replace(/-/g, '') and value.replace(/:/g, '')
without(s, c) == SelectSeq(s, LAMBDA x : x # c)

\* a TypeError leaves parseTimestamp
TypeError == << "TypeError" >>

\* new Date(value) for `YYYY-MM-DD` (UTC) and `YYYY-MM-DDTHH:MM:SS` (local
\* time); any other text of the rows is not a date
DateOf(value, offset) ==
    LET shaped(n) ==
            /\ value # NoCell /\ Len(value) = n
            /\ \A k \in 1 .. n :
                   IF k \in {5, 8} THEN value[k] = "-"
                   ELSE IF k = 11 THEN value[k] = "T"
                   ELSE IF k \in {14, 17} THEN value[k] = ":"
                   ELSE includes(Digit, value[k])
        part(from, to) == parseInt(slice(value, from, to))
        zero == << "0" >>
    IN  IF shaped(10)
        THEN DateLocal(part(0, 4), part(5, 7), part(8, 10), zero, zero, zero, 0)
        ELSE IF shaped(19)
        THEN DateLocal(part(0, 4), part(5, 7), part(8, 10), part(11, 13),
                       part(14, 16), part(17, 19), offset)
        ELSE NaN

parseTimestamp(value, fmt, offset) ==
    LET n == Number(value)
        zero == << "0" >>
    IN  CASE fmt = "unix_auto" ->
               IF GreaterThanPow10(n, 15) THEN FloorDivPow10(n, 6)
               ELSE IF GreaterThanPow10(n, 12) THEN FloorDivPow10(n, 3)
               ELSE n
          [] fmt = "unix_us" -> FloorDivPow10(n, 6)
          [] fmt = "unix_ms" -> FloorDivPow10(n, 3)
          [] fmt = "iso" -> DateOf(value, offset)
          [] fmt = "stooq" ->
               IF value = NoCell THEN TypeError
               ELSE LET cleaned == without(value, "-")
                    IN  DateLocal(parseInt(slice(cleaned, 0, 4)),
                                  parseInt(slice(cleaned, 4, 6)),
                                  parseInt(slice(cleaned, 6, 8)),
                                  zero, zero, zero, offset)
          [] fmt = "histdata" ->
               LET text == trim(value)
                   gaps == { k \in 1 .. Len(text) : text[k] = " " }
                   cut == IF gaps = {} THEN Len(text) + 1
                          ELSE CHOOSE k \in gaps : \A j \in gaps : k <= j
                   dateStr == without(SubSeq(text, 1, cut - 1), "-")
                   rest == trimStart(SubSeq(text, cut, Len(text)))
                   more == { k \in 1 .. Len(rest) : rest[k] = " " }
                   timeStr == without(
                       IF more = {} THEN rest
                       ELSE SubSeq(rest, 1, (CHOOSE k \in more :
                                                \A j \in more : k <= j) - 1),
                       ":")
               IN  IF gaps = {}
                   THEN DateLocal(parseInt(slice(dateStr, 0, 4)),
                                  parseInt(slice(dateStr, 4, 6)),
                                  parseInt(slice(dateStr, 6, 8)),
                                  zero, zero, zero, offset)
                   ELSE DateLocal(parseInt(slice(dateStr, 0, 4)),
                                  parseInt(slice(dateStr, 4, 6)),
                                  parseInt(slice(dateStr, 6, 8)),
                                  parseInt(slice(timeStr, 0, 2)),
                                  parseInt(slice(timeStr, 2, 4)),
                                  IF Len(timeStr) >= 6
                                  THEN parseInt(slice(timeStr, 4, 6)) ELSE zero,
                                  offset)
          [] OTHER -> n

\* the timestamp cells of the rows: for each width up to 16 digits the
\* smallest value, the next one, the largest (2^53 - 1 at 16 digits, the
\* largest integer a JavaScript number holds exactly) and one in between
ScaleValues ==
    { << "1" >>,
      << "9" >>,
      << "1", "0" >>,
      << "1", "1" >>,
      << "9", "9" >>,
      << "1", "0", "0" >>,
      << "1", "0", "1" >>,
      << "1", "7", "5" >>,
      << "9", "9", "9" >>,
      << "1", "0", "0", "0" >>,
      << "1", "0", "0", "1" >>,
      << "1", "7", "0", "5" >>,
      << "9", "9", "9", "9" >>,
      << "1", "0", "0", "0", "0" >>,
      << "1", "0", "0", "0", "1" >>,
      << "1", "7", "0", "0", "5" >>,
      << "9", "9", "9", "9", "9" >>,
      << "1", "0", "0", "0", "0", "0" >>,
      << "1", "0", "0", "0", "0", "1" >>,
      << "1", "7", "0", "0", "0", "5" >>,
      << "9", "9", "9", "9", "9", "9" >>,
      << "1", "0", "0", "0", "0", "0", "0" >>,
      << "1", "0", "0", "0", "0", "0", "1" >>,
      << "1", "7", "0", "0", "0", "0", "5" >>,
      << "9", "9", "9", "9", "9", "9", "9" >>,
      << "1", "0", "0", "0", "0", "0", "0", "0" >>,
      << "1", "0", "0", "0", "0", "0", "0", "1" >>,
      << "1", "7", "0", "0", "0", "0", "0", "5" >>,
      << "9", "9", "9", "9", "9", "9", "9", "9" >>,
      << "1", "0", "0", "0", "0", "0", "0", "0", "0" >>,
      << "1", "0", "0", "0", "0", "0", "0", "0", "1" >>,
      << "1", "7", "0", "0", "0", "0", "0", "0", "5" >>,
      << "9", "9", "9", "9", "9", "9", "9", "9", "9" >>,
      << "1", "0", "0", "0", "0", "0", "0", "0", "0", "0" >>,
      << "1", "0", "0", "0", "0", "0", "0", "0", "0", "1" >>,
      << "1", "7", "0", "0", "0", "0", "0", "0", "0", "5" >>,
      << "9", "9", "9", "9", "9", "9", "9", "9", "9", "9" >>,
      << "1", "0", "0", "0", "0", "0", "0", "0", "0", "0", "0" >>,
      << "1", "0", "0", "0", "0", "0", "0", "0", "0", "0", "1" >>,
      << "1", "7", "0", "0", "0", "0", "0", "0", "0", "0", "5" >>,
      << "9", "9", "9", "9", "9", "9", "9", "9", "9", "9", "9" >>,
      << "1", "0", "0", "0", "0", "0", "0", "0", "0", "0", "0", "0" >>,
      << "1", "0", "0", "0", "0", "0", "0", "0", "0", "0", "0", "1" >>,
      << "1", "7", "0", "0", "0", "0", "0", "0", "0", "0", "0", "5" >>,
      << "9", "9", "9", "9", "9", "9", "9", "9", "9", "9", "9", "9" >>,
      << "1", "0", "0", "0", "0", "0", "0", "0", "0", "0", "0", "0", "0" >>,
      << "1", "0", "0", "0", "0", "0", "0", "0", "0", "0", "0", "0", "1" >>,
      << "1", "7", "0", "0", "0", "0", "0", "0", "0", "0", "0", "0", "5" >>,
      << "9", "9", "9", "9", "9", "9", "9", "9", "9", "9", "9", "9", "9" >>,
      << "1", "0", "0", "0", "0", "0", "0", "0", "0", "0", "0", "0", "0", "0" >>,
      << "1", "0", "0", "0", "0", "0", "0", "0", "0", "0", "0", "0", "0", "1" >>,
      << "1", "7", "0", "0", "0", "0", "0", "0", "0", "0", "0", "0", "0", "5" >>,
      << "9", "9", "9", "9", "9", "9", "9", "9", "9", "9", "9", "9", "9", "9" >>,
      << "1", "0", "0", "0", "0", "0", "0", "0", "0", "0", "0", "0", "0", "0", "0" >>,
      << "1", "0", "0", "0", "0", "0", "0", "0", "0", "0", "0", "0", "0", "0", "1" >>,
      << "1", "7", "0", "0", "0", "0", "0", "0", "0", "0", "0", "0", "0", "0", "5" >>,
      << "9", "9", "9", "9", "9", "9", "9", "9", "9", "9", "9", "9", "9", "9", "9" >>,
      << "1", "0", "0", "0", "0", "0", "0", "0", "0", "0", "0", "0", "0", "0", "0", "0" >>,
      << "1", "0", "0", "0", "0", "0", "0", "0", "0", "0", "0", "0", "0", "0", "0", "1" >>,
      << "1", "7", "0", "0", "0", "0", "0", "0", "0", "0", "0", "0", "0", "0", "0", "5" >>,
      << "9", "0", "0", "7", "1", "9", "9", "2", "5", "4", "7", "4", "0", "9", "9", "1" >> }

\* the cell handed to parseTimestamp and what it returned
Scaled(value, result) == [name |-> "scale", value |-> value, result |-> result]

ScaleInit ==
    /\ InitState
    /\ localStorage = NoStorage
    /\ nextId = 1
    /\ initializedRef = TRUE
    /\ \E v \in ScaleValues : op = Scaled(v, << >>)

\* the row loop reaches parseTimestamp under the positional mapping
ParseTimestamp ==
    /\ op.result = << >>
    /\ op' = Scaled(op.value, parseTimestamp(op.value, "unix_auto", 0))
    /\ DetectFrame

ScaleNext == ParseTimestamp

ScaleSpec == ScaleInit /\ [][ScaleNext]_vars

\* C33: under the positional mapping a timestamp of at most 10 digits is
\* taken as seconds, one of 11 to 13 digits is divided by 1000 and a longer
\* one by 1000000, rounding down.
C33_ScaleByMagnitude ==
    (op.name = "scale" /\ op.result # << >>) =>
        LET digits == Len(op.value)
            dropped == IF digits <= 10 THEN 0 ELSE IF digits <= 13 THEN 3 ELSE 6
        IN  op.result = SubSeq(op.value, 1, digits - dropped)

\* ------------------------------------------------------------ the row loop

\* cols[idx]
col(cols, idx) == IF idx \in 0 .. Len(cols) - 1 THEN cols[idx + 1] ELSE NoCell

\* candles.sort((a, b) => a.time - b.time)
sort(candles) == SortByTime(candles)

\* One pass of the row loop: the bar pushed, no bar (`continue`), or the
\* TypeError of parseTimestamp.
parseRow(cols, mapping, offset) ==
    LET ts == parseTimestamp(col(cols, mapping.timestamp),
                             mapping.timestampFormat, offset)
        open == parseFloat(col(cols, mapping.open))
        high == parseFloat(col(cols, mapping.high))
        low == parseFloat(col(cols, mapping.low))
        close == parseFloat(col(cols, mapping.close))
        vol == IF mapping.volume >= 0 THEN parseFloat(col(cols, mapping.volume))
               ELSE << "0" >>
        volume == IF isNaN(vol) THEN << "0" >> ELSE vol
    IN  IF Len(cols) < 5 THEN [kind |-> "continue"]
        ELSE IF ts = TypeError THEN [kind |-> "throw"]
        ELSE IF isNaN(ts) \/ isNaN(open) \/ isNaN(high) \/ isNaN(low) \/ isNaN(close)
        THEN [kind |-> "continue"]
        ELSE [kind |-> "push",
              bar |-> Bar(ToInt(ts), ToInt(open), ToInt(high), ToInt(low),
                          ToInt(close), ToInt(volume))]

\* the row loop over lines[i .. ]: the bars pushed, and whether it threw
RECURSIVE rowLoop(_, _, _, _)
rowLoop(lines, i, mapping, offset) ==
    IF i > Len(lines) THEN [threw |-> FALSE, candles |-> << >>]
    ELSE LET row == parseRow(lines[i], mapping, offset)
             rest == rowLoop(lines, i + 1, mapping, offset)
         IN  IF row.kind = "throw" THEN [threw |-> TRUE, candles |-> << >>]
             ELSE IF row.kind = "continue" THEN rest
             ELSE [rest EXCEPT !.candles = << row.bar >> \o @]

\* a line of the text is one empty cell when it is blank
IsBlank(line) == Len(line) = 1 /\ trim(line[1]) = << >>

\* processFile from the text to its last status: the status line, whether
\* onDataLoaded was called, and the bars handed over
Parsed(text, offset) ==
    LET lines == SelectSeq(text, LAMBDA l : ~IsBlank(l))
        mapping == detectFormat(lines[1])
        hasHeader == isNaN(Number(lines[1][1]))
        startIdx == IF hasHeader THEN 1 ELSE 0
        rows == rowLoop(lines, startIdx + 1, mapping, offset)
    IN  IF Len(lines) < 2
        THEN [status |-> "Error: file is empty or has no data rows.",
              called |-> FALSE, candles |-> << >>]
        ELSE IF mapping.timestampFormat = "null"
        THEN [status |-> "Error: unable to detect CSV format.",
              called |-> FALSE, candles |-> << >>]
        ELSE IF rows.threw
        THEN [status |-> "Error: TypeError", called |-> FALSE, candles |-> << >>]
        ELSE [status |-> "Loaded", called |-> TRUE, candles |-> sort(rows.candles)]

\* the texts of the files, each line split at the delimiter
Texts ==
    { \* no header, two rows
      << << << "6", "0" >>, << "1", "0" >>, << "1", "2" >>, << "9" >>, << "1", "1" >>, << "1" >> >>,
         << << "1", "2", "0" >>, << "1", "1" >>, << "1", "4" >>, << "1", "0" >>, << "1", "3" >>, << "2" >> >> >>,
      \* no header, rows in descending order
      << << << "1", "2", "0" >>, << "1", "1" >>, << "1", "4" >>, << "1", "0" >>, << "1", "3" >>, << "2" >> >>,
         << << "6", "0" >>, << "1", "0" >>, << "1", "2" >>, << "9" >>, << "1", "1" >>, << "1" >> >> >>,
      \* no header, a single row
      << << << "6", "0" >>, << "1", "0" >>, << "1", "2" >>, << "9" >>, << "1", "1" >>, << "1" >> >> >>,
      \* no header, a time twice, out of order
      << << << "1", "2", "0" >>, << "1", "1" >>, << "1", "4" >>, << "1", "0" >>, << "1", "3" >>, << "2" >> >>,
         << << "6", "0" >>, << "2", "0" >>, << "2", "1" >>, << "1", "9" >>, << "2", "0" >>, << "8" >> >>,
         << << "6", "0" >>, << "1", "0" >>, << "1", "2" >>, << "9" >>, << "1", "1" >>, << "1" >> >> >>,
      \* a row of four fields
      << << << "6", "0" >>, << "1", "0" >>, << "1", "2" >>, << "9" >>, << "1", "1" >>, << "1" >> >>,
         << << "9", "0" >>, << "1" >>, << "2" >>, << "3" >> >>,
         << << "1", "2", "0" >>, << "1", "1" >>, << "1", "4" >>, << "1", "0" >>, << "1", "3" >>, << "2" >> >> >>,
      \* a row whose open is text
      << << << "6", "0" >>, << "1", "0" >>, << "1", "2" >>, << "9" >>, << "1", "1" >>, << "1" >> >>,
         << << "9", "0" >>, << "a", "b", "c" >>, << "1", "2" >>, << "9" >>, << "1", "1" >>, << "1" >> >>,
         << << "1", "2", "0" >>, << "1", "1" >>, << "1", "4" >>, << "1", "0" >>, << "1", "3" >>, << "2" >> >> >>,
      \* a row whose time is empty
      << << << "6", "0" >>, << "1", "0" >>, << "1", "2" >>, << "9" >>, << "1", "1" >>, << "1" >> >>,
         << << >>, << "1", "0" >>, << "1", "2" >>, << "9" >>, << "1", "1" >>, << "1" >> >>,
         << << "1", "2", "0" >>, << "1", "1" >>, << "1", "4" >>, << "1", "0" >>, << "1", "3" >>, << "2" >> >> >>,
      \* a row whose high starts with digits
      << << << "6", "0" >>, << "1", "0" >>, << "1", "2" >>, << "9" >>, << "1", "1" >>, << "1" >> >>,
         << << "9", "0" >>, << "1", "0" >>, << "1", "2", "a", "b", "c" >>, << "9" >>, << "1", "1" >>, << "1" >> >>,
         << << "1", "2", "0" >>, << "1", "1" >>, << "1", "4" >>, << "1", "0" >>, << "1", "3" >>, << "2" >> >> >>,
      \* no volume column
      << << << "6", "0" >>, << "1", "0" >>, << "1", "2" >>, << "9" >>, << "1", "1" >> >>,
         << << "1", "2", "0" >>, << "1", "1" >>, << "1", "4" >>, << "1", "0" >>, << "1", "3" >> >> >>,
      \* a volume that is text
      << << << "6", "0" >>, << "1", "0" >>, << "1", "2" >>, << "9" >>, << "1", "1" >>, << "1" >> >>,
         << << "1", "2", "0" >>, << "1", "1" >>, << "1", "4" >>, << "1", "0" >>, << "1", "3" >>, << "x" >> >> >>,
      \* a blank line
      << << << "6", "0" >>, << "1", "0" >>, << "1", "2" >>, << "9" >>, << "1", "1" >>, << "1" >> >>,
         << << >> >>,
         << << "1", "2", "0" >>, << "1", "1" >>, << "1", "4" >>, << "1", "0" >>, << "1", "3" >>, << "2" >> >> >>,
      \* no header, milliseconds
      << << << "1", "7", "0", "0", "0", "0", "0", "0", "0", "0", "0", "0", "0" >>, << "1", "0" >>, << "1", "2" >>, << "9" >>, << "1", "1" >>, << "1" >> >>,
         << << "1", "7", "0", "0", "0", "0", "0", "0", "6", "0", "0", "0", "0" >>, << "1", "1" >>, << "1", "4" >>, << "1", "0" >>, << "1", "3" >>, << "2" >> >> >>,
      \* Binance header
      << << << "o", "p", "e", "n", "_", "t", "i", "m", "e" >>, << "o", "p", "e", "n" >>, << "h", "i", "g", "h" >>, << "l", "o", "w" >>, << "c", "l", "o", "s", "e" >>, << "v", "o", "l", "u", "m", "e" >> >>,
         << << "6", "0", "0", "0", "0" >>, << "1", "0" >>, << "1", "2" >>, << "9" >>, << "1", "1" >>, << "1" >> >>,
         << << "1", "2", "0", "0", "0", "0" >>, << "1", "1" >>, << "1", "4" >>, << "1", "0" >>, << "1", "3" >>, << "2" >> >> >>,
      \* Binance header, rows in descending order
      << << << "o", "p", "e", "n", "_", "t", "i", "m", "e" >>, << "o", "p", "e", "n" >>, << "h", "i", "g", "h" >>, << "l", "o", "w" >>, << "c", "l", "o", "s", "e" >>, << "v", "o", "l", "u", "m", "e" >> >>,
         << << "1", "2", "0", "0", "0", "0" >>, << "1", "1" >>, << "1", "4" >>, << "1", "0" >>, << "1", "3" >>, << "2" >> >>,
         << << "6", "0", "0", "0", "0" >>, << "1", "0" >>, << "1", "2" >>, << "9" >>, << "1", "1" >>, << "1" >> >> >>,
      \* Binance header, one row
      << << << "o", "p", "e", "n", "_", "t", "i", "m", "e" >>, << "o", "p", "e", "n" >>, << "h", "i", "g", "h" >>, << "l", "o", "w" >>, << "c", "l", "o", "s", "e" >>, << "v", "o", "l", "u", "m", "e" >> >>,
         << << "6", "0", "0", "0", "0" >>, << "1", "0" >>, << "1", "2" >>, << "9" >>, << "1", "1" >>, << "1" >> >> >>,
      \* Binance header and nothing else
      << << << "o", "p", "e", "n", "_", "t", "i", "m", "e" >>, << "o", "p", "e", "n" >>, << "h", "i", "g", "h" >>, << "l", "o", "w" >>, << "c", "l", "o", "s", "e" >>, << "v", "o", "l", "u", "m", "e" >> >> >>,
      \* Stooq header, dates with separators
      << << << "D", "a", "t", "e" >>, << "O", "p", "e", "n" >>, << "H", "i", "g", "h" >>, << "L", "o", "w" >>, << "C", "l", "o", "s", "e" >>, << "V", "o", "l", "u", "m", "e" >> >>,
         << << "2", "0", "2", "1", "-", "0", "1", "-", "0", "5" >>, << "1", "0" >>, << "1", "2" >>, << "9" >>, << "1", "1" >>, << "1", "0", "0", "0" >> >>,
         << << "2", "0", "2", "1", "-", "0", "1", "-", "0", "6" >>, << "1", "1" >>, << "1", "4" >>, << "1", "0" >>, << "1", "3" >>, << "2", "0", "0", "0" >> >> >>,
      \* Stooq header, compact dates
      << << << "D", "a", "t", "e" >>, << "O", "p", "e", "n" >>, << "H", "i", "g", "h" >>, << "L", "o", "w" >>, << "C", "l", "o", "s", "e" >>, << "V", "o", "l", "u", "m", "e" >> >>,
         << << "2", "0", "2", "1", "0", "1", "0", "6" >>, << "1", "1" >>, << "1", "4" >>, << "1", "0" >>, << "1", "3" >>, << "2", "0", "0", "0" >> >>,
         << << "2", "0", "2", "1", "0", "1", "0", "5" >>, << "1", "0" >>, << "1", "2" >>, << "9" >>, << "1", "1" >>, << "1", "0", "0", "0" >> >> >>,
      \* Stooq header, a date that is text
      << << << "D", "a", "t", "e" >>, << "O", "p", "e", "n" >>, << "H", "i", "g", "h" >>, << "L", "o", "w" >>, << "C", "l", "o", "s", "e" >>, << "V", "o", "l", "u", "m", "e" >> >>,
         << << "n", "/", "a" >>, << "1", "0" >>, << "1", "2" >>, << "9" >>, << "1", "1" >>, << "1", "0", "0", "0" >> >>,
         << << "2", "0", "2", "1", "-", "0", "1", "-", "0", "6" >>, << "1", "1" >>, << "1", "4" >>, << "1", "0" >>, << "1", "3" >>, << "2", "0", "0", "0" >> >> >>,
      \* the date in the last column, a row without it
      << << << "O", "p", "e", "n" >>, << "H", "i", "g", "h" >>, << "L", "o", "w" >>, << "C", "l", "o", "s", "e" >>, << "V", "o", "l", "u", "m", "e" >>, << "D", "a", "t", "e" >> >>,
         << << "1", "0" >>, << "1", "2" >>, << "9" >>, << "1", "1" >>, << "1", "0", "0", "0" >>, << "2", "0", "2", "1", "-", "0", "1", "-", "0", "5" >> >>,
         << << "1", "1" >>, << "1", "4" >>, << "1", "0" >>, << "1", "3" >>, << "2", "0", "0", "0" >> >> >>,
      \* HistData header, date and time in two columns
      << << << "<", "D", "T", "Y", "Y", "Y", "Y", "M", "M", "D", "D", ">" >>, << "<", "T", "I", "C", "K", "T", "I", "M", "E", ">" >>, << "<", "O", "P", "E", "N", ">" >>, << "<", "H", "I", "G", "H", ">" >>, << "<", "L", "O", "W", ">" >>, << "<", "C", "L", "O", "S", "E", ">" >>, << "<", "V", "O", "L", ">" >> >>,
         << << "2", "0", "2", "1", "0", "1", "0", "5" >>, << "1", "0", "3", "0", "0", "0" >>, << "1", "0" >>, << "1", "2" >>, << "9" >>, << "1", "1" >>, << "5" >> >>,
         << << "2", "0", "2", "1", "0", "1", "0", "6" >>, << "1", "0", "3", "0", "0", "0" >>, << "1", "1" >>, << "1", "4" >>, << "1", "0" >>, << "1", "3" >>, << "6" >> >> >>,
      \* HistData header, date and time in the first column
      << << << "<", "D", "T", "Y", "Y", "Y", "Y", "M", "M", "D", "D", ">" >>, << "<", "O", "P", "E", "N", ">" >>, << "<", "H", "I", "G", "H", ">" >>, << "<", "L", "O", "W", ">" >>, << "<", "C", "L", "O", "S", "E", ">" >>, << "<", "V", "O", "L", ">" >> >>,
         << << "2", "0", "2", "1", "0", "1", "0", "5", " ", "1", "0", "3", "0", "0", "0" >>, << "1", "0" >>, << "1", "2" >>, << "9" >>, << "1", "1" >>, << "5" >> >>,
         << << "2", "0", "2", "1", "0", "1", "0", "5", " ", "1", "0", "3", "1", "0", "0" >>, << "1", "1" >>, << "1", "4" >>, << "1", "0" >>, << "1", "3" >>, << "6" >> >> >>,
      \* generic names, ISO dates
      << << << "T", "i", "m", "e", "s", "t", "a", "m", "p" >>, << "O", "p", "e", "n" >>, << "H", "i", "g", "h" >>, << "L", "o", "w" >>, << "C", "l", "o", "s", "e" >> >>,
         << << "2", "0", "2", "1", "-", "0", "1", "-", "0", "5" >>, << "1", "0" >>, << "1", "2" >>, << "9" >>, << "1", "1" >> >>,
         << << "2", "0", "2", "1", "-", "0", "1", "-", "0", "6" >>, << "1", "1" >>, << "1", "4" >>, << "1", "0" >>, << "1", "3" >> >> >>,
      \* generic names, ISO date and time
      << << << "T", "i", "m", "e", "s", "t", "a", "m", "p" >>, << "O", "p", "e", "n" >>, << "H", "i", "g", "h" >>, << "L", "o", "w" >>, << "C", "l", "o", "s", "e" >> >>,
         << << "2", "0", "2", "1", "-", "0", "1", "-", "0", "5", "T", "1", "0", ":", "3", "0", ":", "0", "0" >>, << "1", "0" >>, << "1", "2" >>, << "9" >>, << "1", "1" >> >>,
         << << "2", "0", "2", "1", "-", "0", "1", "-", "0", "5", "T", "1", "0", ":", "3", "1", ":", "0", "0" >>, << "1", "1" >>, << "1", "4" >>, << "1", "0" >>, << "1", "3" >> >> >>,
      \* unknown names, three columns
      << << << "i", "d" >>, << "a" >>, << "b" >> >>,
         << << "1" >>, << "2" >>, << "3" >> >> >> }

\* minutes the local time of the machine is ahead of UTC
Offsets == {0, 120, -300}

\* the text read, the time zone of the machine and what processFile made of it
Ingested(text, offset, result) ==
    [name |-> "parse", text |-> text, offset |-> offset, result |-> result]

ParseInit ==
    /\ InitState
    /\ localStorage = NoStorage
    /\ nextId = 1
    /\ initializedRef = TRUE
    /\ \E text \in Texts, offset \in Offsets :
          op = Ingested(text, offset, [status |-> "Reading file..."])

\* processFile from the continuation of `await file.text()` to its end
ParseFile ==
    /\ op.result.status = "Reading file..."
    /\ op' = Ingested(op.text, op.offset, Parsed(op.text, op.offset))
    /\ DetectFrame

ParseNext == ParseFile

ParseSpec == ParseInit /\ [][ParseNext]_vars

\* a cell that spells a number
IsNumeric(cell) == cell # NoCell /\ IsDigits(trim(cell))

\* the lines of the text that processFile keeps, its mapping and its data rows
LinesOf(text) == SelectSeq(text, LAMBDA l : ~IsBlank(l))

DataRows(text) ==
    LET lines == LinesOf(text)
    IN  IF IsNumeric(lines[1][1]) THEN lines ELSE SubSeq(lines, 2, Len(lines))

\* processFile got as far as the row loop
RowsParsed ==
    /\ op.name = "parse"
    /\ op.result.status \notin { "Reading file...",
                                 "Error: file is empty or has no data rows.",
                                 "Error: unable to detect CSV format." }

\* a row with five fields or more and a numeric time, open, high, low, close
WellFormed(cols, mapping, offset) ==
    LET time == col(cols, mapping.timestamp)
    IN  /\ Len(cols) >= 5
        /\ IF mapping.timestampFormat \in {"iso", "stooq", "histdata"}
           THEN time # NoCell
                /\ ~isNaN(parseTimestamp(time, mapping.timestampFormat, offset))
           ELSE IsNumeric(time)
        /\ IsNumeric(col(cols, mapping.open))
        /\ IsNumeric(col(cols, mapping.high))
        /\ IsNumeric(col(cols, mapping.low))
        /\ IsNumeric(col(cols, mapping.close))

\* C34: a data row with fewer than five fields or a non-numeric time, open,
\* high, low or close is dropped and every other data row yields one bar: of
\* N data rows with k malformed ones, N - k bars are handed over; a missing
\* or non-numeric volume is 0 and the row is kept.
C34_RowsDropped ==
    RowsParsed =>
        LET mapping == detectFormat(LinesOf(op.text)[1])
            good == SelectSeq(DataRows(op.text),
                              LAMBDA cols : WellFormed(cols, mapping, op.offset))
            volumeOf(cols) ==
                IF IsNumeric(col(cols, mapping.volume))
                THEN ToInt(trim(col(cols, mapping.volume))) ELSE 0
            candles == op.result.candles
        IN  /\ op.result.called
            /\ Len(candles) = Len(good)
            /\ \A v \in { volumeOf(good[i]) : i \in 1 .. Len(good) } :
                  Cardinality({ i \in 1 .. Len(good) : volumeOf(good[i]) = v })
                    = Cardinality({ j \in 1 .. Len(candles) : candles[j].volume = v })

\* bars in ascending order of time
Ascending(bars) ==
    \A i \in 1 .. Len(bars) - 1 : bars[i].time <= bars[i + 1].time

\* C35: the bar list processFile hands over is ascending by time whatever
\* the order of the rows, and the bars of every session of the registry and
\* the rows of the table, in insertion order, are ascending by time.
C35_Ascending ==
    /\ (op.name = "parse" /\ op.result.status = "Loaded") =>
           Ascending(op.result.candles)
    /\ \A k \in 1 .. Len(sessions) : Ascending(sessions[k].candles)
    /\ Ascending(table)

\* the part of C35 about the sessions of the registry alone
SessionsAscending == \A k \in 1 .. Len(sessions) : Ascending(sessions[k].candles)

\* C36: the first line is skipped as a header unless its first field is a
\* number; a file of N well-formed data rows, with a header line or without
\* one, hands over N bars, a headerless file of a single row included.
C36_HeaderOrData ==
    (op.name = "parse" /\ op.result.status # "Reading file...") =>
        LET lines == LinesOf(op.text)
            mapping == detectFormat(lines[1])
            rows == DataRows(op.text)
        IN  ( /\ lines # << >>
              /\ mapping # NoMapping
              /\ rows # << >>
              /\ \A i \in 1 .. Len(rows) : WellFormed(rows[i], mapping, op.offset) )
            => /\ op.result.status = "Loaded"
               /\ Len(op.result.candles) = Len(rows)

\* C37: under the stooq and the histdata encoding the time of a bar is the
\* number of seconds from the epoch to the calendar date and time of the row
\* read as UTC (offset 0), whatever the time zone of the machine.
C37_DatesAreUTC ==
    ( /\ RowsParsed
      /\ detectFormat(LinesOf(op.text)[1]).timestampFormat \in {"stooq", "histdata"} )
    => op.result.candles = Parsed(op.text, 0).candles

\* C38: the active id is none or the id of a session of the list, and it is
\* none only while the list is empty, after every add, remove, switch and
\* restore of the registry.
C38_ActiveInList ==
    /\ activeSessionId # NoSession => hasActiveSession
    /\ activeSessionId = NoSession => sessions = << >>

\* the active session was removed while others remain, and one of them is
\* active now
C38_Witness ==
    /\ op.name = "remove"
    /\ op.arg = op.active
    /\ sessions # << >>
    /\ activeSessionId = sessions[1].id

\* ------------------------------------------------------ the store handle

\* instances and connections the engine makes in one run
MaxHandles == 4

\* promises getDuckDB makes in one run
MaxInits == 3

\* the last step of lib/duckdb: the call it belongs to, the connection it
\* returned, and the instances made, the connections made and the
\* connections returned since the last resetDB completed
HandleOp(name, by, returned, instancesMade, connectionsMade, given) ==
    [name |-> name, by |-> by, returned |-> returned,
     instancesMade |-> instancesMade, connectionsMade |-> connectionsMade,
     given |-> given]

HandleStep(name, by) ==
    HandleOp(name, by, NoHandle, op.instancesMade, op.connectionsMade, op.given)

HandleFrame ==
    UNCHANGED << replayVars, registryVars, pageVars, table, drawingVars,
                 effectVars, latestQuery, awaitReinit >>

HandleInit ==
    /\ InitState
    /\ localStorage = NoStorage
    /\ nextId = 1
    /\ initializedRef = TRUE
    /\ op = HandleOp("none", 0, NoHandle, {}, {}, {})

\* getDuckDB up to its return, called by getConnection of caller c: the
\* instance, the promise at hand, or a new promise whose body has run up to
\* `await duckdb.selectBundle`
getDuckDB(c) ==
    IF dbInstance # NoHandle
    THEN /\ calls' = [calls EXCEPT ![c] =
                         [fn |-> "getConnection", pc |-> "awaitDb",
                          promise |-> NoHandle, handle |-> dbInstance]]
         /\ UNCHANGED << inits, initPromise >>
    ELSE IF initPromise # NoHandle
    THEN /\ calls' = [calls EXCEPT ![c] =
                         [fn |-> "getConnection", pc |-> "awaitDb",
                          promise |-> initPromise, handle |-> NoHandle]]
         /\ UNCHANGED << inits, initPromise >>
    ELSE /\ Len(inits) < MaxInits
         /\ inits' = Append(inits, [pc |-> "selectBundle", db |-> NoHandle])
         /\ initPromise' = Len(inits) + 1
         /\ calls' = [calls EXCEPT ![c] =
                         [fn |-> "getConnection", pc |-> "awaitDb",
                          promise |-> Len(inits) + 1, handle |-> NoHandle]]

\* getConnection up to its first await: the connection at hand is returned,
\* else getDuckDB is called and awaited
GetConnection ==
    \E c \in Callers :
        /\ calls[c] = Idle
        /\ IF dbConnection # NoHandle
           THEN /\ UNCHANGED handleVars
                /\ op' = HandleOp("getConnection", c, dbConnection,
                                  op.instancesMade, op.connectionsMade,
                                  op.given \cup {dbConnection})
           ELSE /\ getDuckDB(c)
                /\ UNCHANGED << dbInstance, dbConnection, instances,
                                connections, nextHandle >>
                /\ op' = HandleStep("getConnection", c)
        /\ HandleFrame

\* the body of the promise after selectBundle: new Worker, new AsyncDuckDB,
\* up to `await db.instantiate`
SelectBundle ==
    \E i \in 1 .. Len(inits) :
        /\ inits[i].pc = "selectBundle"
        /\ nextHandle <= MaxHandles
        /\ inits' = [inits EXCEPT ![i] = [pc |-> "instantiate", db |-> nextHandle]]
        /\ instances' = instances \cup {nextHandle}
        /\ nextHandle' = nextHandle + 1
        /\ UNCHANGED << dbInstance, dbConnection, initPromise, calls, connections >>
        /\ op' = HandleOp("selectBundle", 0, NoHandle,
                          op.instancesMade \cup {nextHandle},
                          op.connectionsMade, op.given)
        /\ HandleFrame

\* the body of the promise after instantiate: dbInstance = db; return db
Instantiate ==
    \E i \in 1 .. Len(inits) :
        /\ inits[i].pc = "instantiate"
        /\ inits' = [inits EXCEPT ![i].pc = "done"]
        /\ dbInstance' = inits[i].db
        /\ UNCHANGED << dbConnection, initPromise, calls, instances, connections,
                        nextHandle >>
        /\ op' = HandleStep("instantiate", 0)
        /\ HandleFrame

\* getConnection after `await getDuckDB()`: db.connect() is called
AwaitDb ==
    \E c \in Callers :
        /\ calls[c].pc = "awaitDb"
        /\ IF calls[c].promise = NoHandle
           THEN calls' = [calls EXCEPT ![c].pc = "connect"]
           ELSE /\ inits[calls[c].promise].pc = "done"
                /\ calls' = [calls EXCEPT ![c].pc = "connect",
                                          ![c].handle = inits[calls[c].promise].db]
        /\ UNCHANGED << dbInstance, dbConnection, initPromise, inits, instances,
                        connections, nextHandle >>
        /\ op' = HandleStep("awaitDb", c)
        /\ HandleFrame

\* getConnection after `await db.connect()`: dbConnection = the connection
\* made; return dbConnection
Connected(c) ==
    /\ dbConnection' = nextHandle
    /\ connections' = connections \cup { [id |-> nextHandle, db |-> calls[c].handle] }
    /\ nextHandle' = nextHandle + 1
    /\ op' = HandleOp("connect", c, nextHandle, op.instancesMade,
                      op.connectionsMade \cup {nextHandle},
                      op.given \cup {nextHandle})

\* db.connect() settles: on a terminated instance it rejects and
\* getConnection throws
Connect ==
    \E c \in Callers :
        /\ calls[c].pc = "connect"
        /\ nextHandle <= MaxHandles
        /\ IF calls[c].handle \in instances
           THEN Connected(c)
           ELSE /\ UNCHANGED << dbConnection, connections, nextHandle >>
                /\ op' = HandleStep("connect", c)
        /\ calls' = [calls EXCEPT ![c] = Idle]
        /\ UNCHANGED << dbInstance, initPromise, inits, instances >>
        /\ HandleFrame

\* a completed resetDB starts a new count
HandleReset(c) == HandleOp("resetDB", c, NoHandle, {}, {}, {})

\* resetDB up to its first await, or to its end when there is nothing to
\* close and nothing to terminate
ResetDB ==
    \E c \in Callers :
        /\ calls[c] = Idle
        /\ IF dbConnection # NoHandle
           THEN /\ calls' = [calls EXCEPT ![c] =
                                [fn |-> "resetDB", pc |-> "close",
                                 promise |-> NoHandle, handle |-> dbConnection]]
                /\ op' = HandleStep("resetDB", c)
           ELSE IF dbInstance # NoHandle
           THEN /\ calls' = [calls EXCEPT ![c] =
                                [fn |-> "resetDB", pc |-> "terminate",
                                 promise |-> NoHandle, handle |-> dbInstance]]
                /\ op' = HandleStep("resetDB", c)
           ELSE /\ UNCHANGED calls
                /\ op' = HandleReset(c)
        /\ UNCHANGED << dbInstance, dbConnection, initPromise, inits, instances,
                        connections, nextHandle >>
        /\ HandleFrame

\* resetDB after `await dbConnection.close()`: dbConnection = null, then
\* the test of dbInstance
Close ==
    \E c \in Callers :
        /\ calls[c].pc = "close"
        /\ connections' = { k \in connections : k.id # calls[c].handle }
        /\ dbConnection' = NoHandle
        /\ IF dbInstance # NoHandle
           THEN /\ calls' = [calls EXCEPT ![c].pc = "terminate",
                                          ![c].handle = dbInstance]
                /\ op' = HandleStep("close", c)
           ELSE /\ calls' = [calls EXCEPT ![c] = Idle]
                /\ op' = HandleReset(c)
        /\ UNCHANGED << dbInstance, initPromise, inits, instances, nextHandle >>
        /\ HandleFrame

\* resetDB after `await dbInstance.terminate()`: the instance and its
\* connections are gone; dbInstance = null; initPromise = null
Terminate ==
    \E c \in Callers :
        /\ calls[c].pc = "terminate"
        /\ instances' = instances \ {calls[c].handle}
        /\ connections' = { k \in connections : k.db # calls[c].handle }
        /\ dbInstance' = NoHandle
        /\ initPromise' = NoHandle
        /\ calls' = [calls EXCEPT ![c] = Idle]
        /\ UNCHANGED << dbConnection, inits, nextHandle >>
        /\ op' = HandleReset(c)
        /\ HandleFrame

HandleNext ==
    \/ GetConnection
    \/ SelectBundle
    \/ Instantiate
    \/ AwaitDb
    \/ Connect
    \/ ResetDB
    \/ Close
    \/ Terminate

HandleSpec == HandleInit /\ [][HandleNext]_vars

\* C39: since the last resetDB completed, at most one database instance and
\* at most one connection were made, and every caller of getConnection was
\* given the same connection, also when calls overlap.
C39_LazySingleton ==
    ("given" \in DOMAIN op) =>
        /\ Cardinality(op.instancesMade) <= 1
        /\ Cardinality(op.connectionsMade) <= 1
        /\ Cardinality(op.given) <= 1

\* ------------------------------------------------------ the annotations

\* drawings made in one run
MaxDrawings == 3

\* the sessionId a drawing carries: the id of the active session, or
\* 'default' (here 0) when there is none
DrawingSessions == {0, 1, 2}

\* loadDrawings: the stored list, [] when the key is absent
loadDrawings == drawingStorage

\* saveDrawings: ok says whether setItem succeeds; a failure is caught
saveDrawings(all, ok) ==
    drawingStorage' = IF ok THEN all ELSE drawingStorage

\* addDrawing, removeDrawing and clearSessionDrawings: the list returned
addDrawing(drawing) == Append(loadDrawings, drawing)

removeDrawing(id) == SelectSeq(loadDrawings, LAMBDA d : d.id # id)

getDrawingsForSession(all, sessionId) ==
    SelectSeq(all, LAMBDA d : d.sessionId = sessionId)

\* a clearSessionDrawings that clears the drawings of every session
clearAllDrawings(sessionId) == << >>

clearSessionDrawings(sessionId) ==
    SelectSeq(loadDrawings, LAMBDA d : d.sessionId # sessionId)

\* the last call of the drawing manager: its argument, the stored list
\* before it, the list it returned and whether its write succeeded
DrawOp(name, arg, returned, ok) ==
    [name |-> name, arg |-> arg, before |-> drawingStorage,
     returned |-> returned, ok |-> ok]

DrawFrame ==
    UNCHANGED << replayVars, registryVars, pageVars, table, handleVars,
                 effectVars, latestQuery, awaitReinit >>

DrawInit ==
    /\ InitState
    /\ localStorage = NoStorage
    /\ nextId = 1
    /\ initializedRef = TRUE
    /\ op = DrawOp("none", 0, << >>, TRUE)

\* handleDrawingAdd: the drawing gets a fresh id, is added to the store and
\* the list returned becomes the drawings of the page
HandleDrawingAdd ==
    \E sessionId \in DrawingSessions, ok \in BOOLEAN :
        LET full == [id |-> nextDrawingId, sessionId |-> sessionId]
            updated == addDrawing(full)
        IN  /\ nextDrawingId <= MaxDrawings
            /\ saveDrawings(updated, ok)
            /\ drawings' = updated
            /\ nextDrawingId' = nextDrawingId + 1
            /\ op' = DrawOp("addDrawing", full, updated, ok)
            /\ DrawFrame

\* handleClearDrawings of the page with session sessionId active
HandleClearDrawings ==
    \E sessionId \in DrawingSessions, ok \in BOOLEAN :
        LET updated == clearSessionDrawings(sessionId)
        IN  /\ saveDrawings(updated, ok)
            /\ drawings' = updated
            /\ UNCHANGED nextDrawingId
            /\ op' = DrawOp("clearSessionDrawings", sessionId, updated, ok)
            /\ DrawFrame

\* removeDrawing, which no handler of the page calls
RemoveDrawing ==
    \E id \in 1 .. MaxDrawings, ok \in BOOLEAN :
        LET updated == removeDrawing(id)
        IN  /\ saveDrawings(updated, ok)
            /\ UNCHANGED << drawings, nextDrawingId >>
            /\ op' = DrawOp("removeDrawing", id, updated, ok)
            /\ DrawFrame

\* the mount effect of the page: setDrawings(loadDrawings())
DrawMount ==
    /\ drawings # loadDrawings
    /\ drawings' = loadDrawings
    /\ UNCHANGED << drawingStorage, nextDrawingId >>
    /\ op' = DrawOp("loadDrawings", 0, loadDrawings, TRUE)
    /\ DrawFrame

DrawNext ==
    \/ HandleDrawingAdd
    \/ HandleClearDrawings
    \/ RemoveDrawing
    \/ DrawMount

DrawSpec == DrawInit /\ [][DrawNext]_vars

\* the drawings of list a are drawings of list b, in the order of b
InOrderOf(a, b) ==
    \A i \in 1 .. Len(a), j \in 1 .. Len(a) :
        i < j => \E p \in 1 .. Len(b), q \in 1 .. Len(b) :
                     p < q /\ b[p] = a[i] /\ b[q] = a[j]

\* C40: addDrawing puts the drawing behind all stored ones, removeDrawing
\* takes away the drawing with the id and no other, clearSessionDrawings
\* takes away the drawings of the session and no other; the drawings that
\* remain keep their order, and the list is stored when the write succeeds.
C40_PerSession ==
    ("before" \in DOMAIN op) =>
        LET before == op.before
            returned == op.returned
            kept(d) == \E i \in 1 .. Len(returned) : returned[i] = d
        IN  /\ op.name = "addDrawing" =>
                /\ Len(returned) = Len(before) + 1
                /\ returned[Len(returned)] = op.arg
                /\ \A i \in 1 .. Len(before) : returned[i] = before[i]
                /\ drawings = returned
            /\ op.name = "removeDrawing" =>
                /\ \A i \in 1 .. Len(before) :
                       kept(before[i]) <=> before[i].id # op.arg
                /\ Len(returned) =
                       Cardinality({ i \in 1 .. Len(before) : before[i].id # op.arg })
                /\ InOrderOf(returned, before)
            /\ op.name = "clearSessionDrawings" =>
                /\ \A i \in 1 .. Len(before) :
                       kept(before[i]) <=> before[i].sessionId # op.arg
                /\ Len(returned) =
                       Cardinality({ i \in 1 .. Len(before) :
                                       before[i].sessionId # op.arg })
                /\ InOrderOf(returned, before)
                /\ drawings = returned
            /\ op.name \in {"addDrawing", "removeDrawing", "clearSessionDrawings"} =>
                /\ drawingStorage = IF op.ok THEN returned ELSE before
                /\ LET touched ==
                           IF op.name = "addDrawing" THEN {op.arg.sessionId}
                           ELSE IF op.name = "clearSessionDrawings" THEN {op.arg}
                           ELSE { before[i].sessionId :
                                    i \in { j \in 1 .. Len(before) :
                                              before[j].id = op.arg } }
                   IN \A s \in DrawingSessions \ touched :
                          getDrawingsForSession(returned, s)
                              = getDrawingsForSession(before, s)

\* the drawings of one session were cleared while another session had
\* drawings, and these remain
C40_Witness ==
    /\ op.name = "clearSessionDrawings"
    /\ Len(op.returned) >= 1
    /\ Len(op.returned) < Len(op.before)

====
